---- MODULE Spec2Model ----
(***************************************************************************)
(* A model of the oxide-rs inference pipeline: the paged key/value cache   *)
(* (src/inference/paged_cache.rs), the streaming generator with its        *)
(* incremental tokenizer (src/inference/generator.rs,                      *)
(* src/model/tokenizer.rs), the dynamic batcher                            *)
(* (src/inference/dynamic_batcher.rs), the process-global thread pinner    *)
(* (src/inference/thread_pinner.rs) and the GGUF loader                    *)
(* (src/model/loader.rs).                                                  *)
(*                                                                         *)
(* The components are independent state machines; each has its own         *)
(* specification (CacheSpec, GenSpec / ModelSpec / GeneratorSpec,          *)
(* TokenizerSpec, BatcherSpec / BatcherFairSpec / ConfigSpec, SharedSpec,  *)
(* PinnerSpec, LoaderSpec) over the one set of variables, the other        *)
(* components staying as constructed.                                      *)
(***************************************************************************)
EXTENDS Integers, Sequences, FiniteSets, TLC

VARIABLES
    \* ---- PagedKvCache (paged_cache.rs:40-48)
    max_pages,          \* usize
    pages,              \* Vec<Option<Tensor>>: index -> TRUE when Some(page)
    page_usage,         \* HashMap<usize, usize>: a function on its key set
    current_seq_len,    \* usize
    new_max_seq_len,    \* the max_seq_len argument given to new()
    cache_call,         \* the last cache operation and how it ended
    appended,           \* positions appended by successful appends since new()/reset()
    only_appends,       \* TRUE while nothing but append() has been called since new()/reset()
    \* ---- Generator (generator.rs:52-62) and TokenizerWrapper (tokenizer.rs:8-15)
    has_template,       \* ChatTemplate.template_str is Some
    messages,           \* Vec<Message>
    token_history,      \* Vec<u32>
    pending_tokens,     \* TokenizerWrapper.pending_tokens
    gen_pc,             \* where the running call stands: idle, prefill, loop, panicked
    gen_call,           \* the locals of the running (or last) call
    events,             \* the StreamEvents the callback received in the running (or last) call
    gen_result,         \* how the last call ended: none, ok, err
    calls,              \* calls started so far
    model,              \* Generator.model: the next-token function of the loaded weights
    logits_processor,   \* Generator.logits_processor: the Sampling and the state of its rng
    runs,               \* the first successful call: what it started from and what it gave
    system_prompt,      \* Generator.system_prompt: Option<String>
    gen_batch,          \* the running (or last) generate_batch call: its prompts and results
    last_forward,       \* the arguments of the last model.forward of the running call
    warmup_call,        \* the locals of warmup: the warmup tokens and the stride reached
    \* ---- DynamicBatcher (dynamic_batcher.rs:55-59) and its batcher_loop
    has_generator,      \* with_generator() against new()
    max_batch_size,     \* config.max_batch_size of the batcher_loop task
    arrived,            \* the requests in the order they entered the channel
    batch_counter,      \* AtomicU64
    request_rx,         \* the requests buffered in the mpsc channel
    closed,             \* every DynamicBatcher handle (Sender) has been dropped
    callers,            \* each caller of generate(): where it stands, its request, its result
    pending_requests,   \* Vec<BatchRequest> of the loop
    loop_pc,            \* top, recv, poll, processing, exited
    elapsed,            \* last_batch_time.elapsed() in ms, counted up to batch_window_ms
    poll_elapsed,       \* ms since the 1 ms poll began, counted up to 1
    in_flight,          \* the batch handed to process_batch, and what the loop does after it
    posted,             \* request id -> the BatchResults sent on its oneshot sender
    batches,            \* the batches dispatched so far
    burst,              \* arrival times: ms since the first arrival, and whether all arrived in the window
    \* ---- Arc<tokio::sync::Mutex<Generator>> shared by batchers (dynamic_batcher.rs:80-96, 203-214)
    gen_mutex,          \* the batcher whose blocking task holds the lock, or Unlocked
    blocking_tasks,     \* each batcher's blocking task: where it stands, batches done, last outcome
    \* ---- static THREAD_PINNER: OnceLock<ThreadPinner> (thread_pinner.rs:59)
    THREAD_PINNER,      \* the OnceLock: empty, a closure running, or holding its ThreadPinner
    pinner_threads,     \* each thread calling init()/get(): its call and what it got back
    first_init,         \* the closure that ran first: the call it belongs to and its configuration
    \* ---- Model::load_with_mmap and Generator::new over a GGUF file (loader.rs:46-187)
    gguf,               \* content.metadata of the file: general.architecture and the integer keys
    load_pc,            \* file, extracted, loaded, constructed, failed, panicked
    metadata,           \* the GgufMetadata extract_metadata returned
    \* ---- TokenizerWrapper called on its own (tokenizer.rs:229-276)
    tokenizer_log       \* the tokens pushed and the fragments returned since the last clear_cache

cache_vars == <<max_pages, pages, page_usage, current_seq_len, new_max_seq_len,
                cache_call, appended, only_appends>>

gen_vars == <<has_template, messages, token_history, pending_tokens, gen_pc, gen_call,
              events, gen_result, calls, model, logits_processor, runs, system_prompt,
              gen_batch, last_forward, warmup_call>>

batcher_vars == <<has_generator, max_batch_size, arrived, batch_counter, request_rx, closed, callers,
                  pending_requests, loop_pc, elapsed, poll_elapsed, in_flight, posted,
                  batches, burst>>

shared_vars == <<gen_mutex, blocking_tasks>>

pinner_vars == <<THREAD_PINNER, pinner_threads, first_init>>

loader_vars == <<gguf, load_pc, metadata>>

tokenizer_vars == <<tokenizer_log>>

vars == <<cache_vars, gen_vars, batcher_vars, shared_vars, pinner_vars, loader_vars,
          tokenizer_vars>>

\* What an operation of one component leaves alone: the other components.
not_cache_vars == <<gen_vars, batcher_vars, shared_vars, pinner_vars, loader_vars,
    tokenizer_vars>>

not_gen_vars == <<cache_vars, batcher_vars, shared_vars, pinner_vars, loader_vars,
    tokenizer_vars>>

not_batcher_vars == <<cache_vars, gen_vars, shared_vars, pinner_vars, loader_vars,
    tokenizer_vars>>

not_shared_vars == <<cache_vars, gen_vars, batcher_vars, pinner_vars, loader_vars,
    tokenizer_vars>>

not_pinner_vars == <<cache_vars, gen_vars, batcher_vars, shared_vars, loader_vars,
    tokenizer_vars>>

not_loader_vars == <<cache_vars, gen_vars, batcher_vars, shared_vars, pinner_vars,
                     tokenizer_vars>>

\* What a call of the tokenizer on its own leaves alone: all but
\* pending_tokens.
not_tokenizer_vars ==
    <<cache_vars, batcher_vars, shared_vars, pinner_vars, loader_vars,
      has_template, messages, token_history, gen_pc, gen_call, events, gen_result, calls,
      model, logits_processor, runs, system_prompt, gen_batch, last_forward, warmup_call>>

----------------------------------------------------------------------------
(* Arithmetic helpers *)

Min(a, b) == IF a <= b THEN a ELSE b

Max(a, b) == IF a >= b THEN a ELSE b

CeilDiv(a, b) == (a + b - 1) \div b

----------------------------------------------------------------------------
(* PagedKvCache *)

\* const DEFAULT_PAGE_SIZE: usize = 16
PageSize == 16

\* The largest number of pages of a modelled cache.
MaxPagesBound == 2

\* A tensor without a dimension 2: k.dim(2) is an Err.
NoDim == -1

\* max_seq_len arguments of new(): around the page boundaries.
SeqLenChoices == {0, 1, PageSize - 1, PageSize, PageSize + 1, MaxPagesBound * PageSize}

\* Sizes of dimension 2 of the K and V tensors handed to the cache.
Dims == {NoDim, 0, 1, PageSize - 1, PageSize, PageSize + 1}

VDims == {NoDim, PageSize}

Offsets == {0, 1, PageSize - 1, PageSize}

\* k.dim(2).unwrap_or(1)
DimOr1(kdim) == IF kdim = NoDim THEN 1 ELSE kdim

\* t.narrow(2, start, len) succeeds on a tensor whose dimension 2 has size dim
NarrowOk(dim, start, len) == dim # NoDim /\ start + len <= dim

AllocatedPages == {i \in DOMAIN pages : pages[i]}

\* self.page_usage.get(&i).copied().unwrap_or(0)
Used(i) == IF i \in DOMAIN page_usage THEN page_usage[i] ELSE 0

\* self.max_pages * self.page_size
max_seq_len == max_pages * PageSize

\* PagedKvCache::new
CacheNew(L) ==
    /\ max_pages = CeilDiv(L, PageSize)
    /\ pages = [i \in 0 .. (CeilDiv(L, PageSize) - 1) |-> FALSE]
    /\ page_usage = <<>>
    /\ current_seq_len = 0
    /\ new_max_seq_len = L
    /\ cache_call = [op |-> "new", result |-> "ok"]
    /\ appended = 0
    /\ only_appends = TRUE

\* A call of allocate_page or write_to_page: how it ended, the page index it
\* was given, and whether it passed the range checks at its head.
PageCall(op, result, page_idx, in_range) ==
    [op |-> op, result |-> result, page_idx |-> page_idx, in_range |-> in_range]

\* A variant that allocates every page at the first allocation.
PagesAfterAllocateAll(page_idx) ==
    IF page_idx >= max_pages \/ pages[page_idx]
    THEN pages
    ELSE [i \in DOMAIN pages |-> TRUE]

\* The pages and usage map after allocate_page(page_idx) went through.
PagesAfterAllocate(page_idx) ==
    IF page_idx >= max_pages \/ pages[page_idx]
    THEN pages
    ELSE [pages EXCEPT ![page_idx] = TRUE]

UsageAfterAllocate(page_idx) ==
    IF page_idx >= max_pages \/ pages[page_idx]
    THEN page_usage
    ELSE (page_idx :> 0) @@ page_usage

\* PagedKvCache::allocate_page; zeros_ok: Tensor::zeros succeeded
allocate_page(page_idx, zeros_ok) ==
    /\ UNCHANGED not_cache_vars
    /\ only_appends' = FALSE
    /\ UNCHANGED <<max_pages, current_seq_len, new_max_seq_len, appended>>
    /\ IF page_idx < max_pages /\ ~pages[page_idx] /\ ~zeros_ok
       THEN /\ cache_call' = PageCall("allocate_page", "err", page_idx, TRUE)
            /\ UNCHANGED <<pages, page_usage>>
       ELSE /\ cache_call' = PageCall("allocate_page", "ok", page_idx, page_idx < max_pages)
            /\ pages' = PagesAfterAllocate(page_idx)
            /\ page_usage' = UsageAfterAllocate(page_idx)

\* A variant that does not clamp the length to the room left in the page.
WriteSeqLenUnclamped(offset, kdim) == DimOr1(kdim)

\* The number of positions write_to_page writes: k.dim(2).unwrap_or(1).min(page_size - offset)
WriteSeqLen(offset, kdim) == Min(DimOr1(kdim), PageSize - offset)

\* PagedKvCache::write_to_page
write_to_page(page_idx, offset, kdim, vdim, zeros_ok) ==
    /\ UNCHANGED not_cache_vars
    /\ only_appends' = FALSE
    /\ UNCHANGED <<max_pages, current_seq_len, new_max_seq_len, appended>>
    /\ IF page_idx >= max_pages \/ offset >= PageSize
       THEN /\ cache_call' = PageCall("write_to_page", "ok", page_idx, FALSE)
            /\ UNCHANGED <<pages, page_usage>>
       ELSE IF ~pages[page_idx] /\ ~zeros_ok
       THEN /\ cache_call' = PageCall("write_to_page", "err", page_idx, TRUE)
            /\ UNCHANGED <<pages, page_usage>>
       ELSE LET seq_len == WriteSeqLen(offset, kdim)
            IN /\ pages' = PagesAfterAllocate(page_idx)
               /\ IF NarrowOk(kdim, 0, seq_len) /\ NarrowOk(vdim, 0, seq_len)
                  THEN /\ page_usage' =
                            (page_idx :> (offset + seq_len)) @@ UsageAfterAllocate(page_idx)
                       /\ cache_call' = PageCall("write_to_page", "ok", page_idx, TRUE)
                  ELSE /\ page_usage' = UsageAfterAllocate(page_idx)
                       /\ cache_call' = PageCall("write_to_page", "err", page_idx, TRUE)

\* The page indices the loop of append visits: start_page..end_page, left at
\* the break once offset >= seq_len.
AppendPages(seq_len) ==
    LET start_page == current_seq_len \div PageSize
        end_page == CeilDiv(current_seq_len + seq_len, PageSize)
    IN start_page .. (end_page - 1)

\* A variant that reads the pages with a checked lookup (pages.get), which
\* never panics.
AppendNeverPanics(seq_len) == FALSE

\* self.pages[page_idx] with page_idx >= pages.len(): index out of bounds, a panic
AppendPanics(seq_len) == \E p \in AppendPages(seq_len) : p >= max_pages

\* PagedKvCache::append: it reads the pages it finds, allocates none, and
\* adds seq_len to current_seq_len once the loop is through.
append(kdim) ==
    LET seq_len == DimOr1(kdim)
    IN /\ UNCHANGED not_cache_vars
       /\ only_appends' = only_appends
       /\ UNCHANGED <<max_pages, pages, page_usage, new_max_seq_len>>
       /\ IF AppendPanics(seq_len)
          THEN /\ cache_call' = [op |-> "append", result |-> "panic"]
               /\ UNCHANGED <<current_seq_len, appended>>
          ELSE /\ cache_call' = [op |-> "append", result |-> "ok"]
               /\ current_seq_len' = current_seq_len + seq_len
               /\ appended' = appended + seq_len

\* A variant of reset that forgets to clear the usage counters.
resetKeepsUsage ==
    /\ UNCHANGED not_cache_vars
    /\ pages' = [i \in DOMAIN pages |-> FALSE]
    /\ current_seq_len' = 0
    /\ cache_call' = [op |-> "reset", result |-> "ok",
                      dropped |-> Cardinality(AllocatedPages)]
    /\ appended' = 0
    /\ only_appends' = TRUE
    /\ UNCHANGED <<max_pages, new_max_seq_len, page_usage>>

\* PagedKvCache::reset; the call is recorded with the pages it dropped
reset ==
    /\ UNCHANGED not_cache_vars
    /\ pages' = [i \in DOMAIN pages |-> FALSE]
    /\ page_usage' = <<>>
    /\ current_seq_len' = 0
    /\ cache_call' = [op |-> "reset", result |-> "ok",
                      dropped |-> Cardinality(AllocatedPages)]
    /\ appended' = 0
    /\ only_appends' = TRUE
    /\ UNCHANGED <<max_pages, new_max_seq_len>>

CacheNext ==
    \/ \E page_idx \in 0 .. MaxPagesBound, zeros_ok \in BOOLEAN :
          allocate_page(page_idx, zeros_ok)
    \/ \E page_idx \in 0 .. MaxPagesBound, offset \in Offsets, kdim \in Dims,
          vdim \in VDims, zeros_ok \in BOOLEAN :
          write_to_page(page_idx, offset, kdim, vdim, zeros_ok)
    \/ \E kdim \in Dims : append(kdim)
    \/ reset

----------------------------------------------------------------------------
(* TokenizerWrapper: the vocabulary, decode and the streaming decode *)

\* The modelled vocabulary, by token id (build_tokenizer_json numbers the
\* tokens by their index): an ordinary piece, the end-of-sequence piece and
\* the two byte-fallback tokens <0xC3> <0xA9> that together spell one
\* two-byte character.
TokA == 0

\* find_eos_token falls back to id 1
EosToken == 1

TokLead == 2

TokCont == 3

Tokens == {TokA, EosToken, TokLead, TokCont}

IsByteToken(t) == t \in {TokLead, TokCont}

\* A string is a sequence of characters; a character is named by a TLA+
\* string and has its UTF-8 length in bytes. "REPL" is U+FFFD.
CharBytes(c) ==
    CASE c = "a" -> 1
      [] c = "</s>" -> 4
      [] c = "e_acute" -> 2
      [] c = "REPL" -> 3

RECURSIVE ByteLen(_)
\* str.len(): the length in bytes
ByteLen(s) == IF s = <<>> THEN 0 ELSE CharBytes(Head(s)) + ByteLen(Tail(s))

\* The text of a token that is not a byte-fallback token.
Piece(t) == IF t = EosToken THEN <<"</s>">> ELSE <<"a">>

\* String::from_utf8 succeeds on a run of byte tokens: here, when the run is
\* made of whole <0xC3><0xA9> pairs.
ValidUtf8(run) ==
    /\ Len(run) % 2 = 0
    /\ \A i \in 1 .. Len(run) :
          run[i] = (IF i % 2 = 1 THEN TokLead ELSE TokCont)

\* The ByteFallback decoder on one run of byte tokens: the characters the
\* bytes spell, or one U+FFFD per byte when they are not valid UTF-8.
FlushRun(run) ==
    IF run = <<>> THEN <<>>
    ELSE IF ValidUtf8(run) THEN [i \in 1 .. (Len(run) \div 2) |-> "e_acute"]
    ELSE [i \in 1 .. Len(run) |-> "REPL"]

RECURSIVE DecodeFrom(_, _)
DecodeFrom(tokens, run) ==
    IF tokens = <<>> THEN FlushRun(run)
    ELSE IF IsByteToken(Head(tokens))
    THEN DecodeFrom(Tail(tokens), Append(run, Head(tokens)))
    ELSE FlushRun(run) \o Piece(Head(tokens)) \o DecodeFrom(Tail(tokens), <<>>)

\* TokenizerWrapper::decode (skip_special_tokens = false), with the decoder
\* build_tokenizer_json configures.
Decode(tokens) == DecodeFrom(tokens, <<>>)

RECURSIVE OnCharBoundary(_, _)
\* str::is_char_boundary(n), for n <= s.len()
OnCharBoundary(s, n) ==
    IF n = 0 THEN TRUE
    ELSE IF s = <<>> \/ CharBytes(Head(s)) > n THEN FALSE
    ELSE OnCharBoundary(Tail(s), n - CharBytes(Head(s)))

RECURSIVE DropBytes(_, _)
\* s[n..] for n on a character boundary
DropBytes(s, n) ==
    IF n = 0 \/ s = <<>> THEN s ELSE DropBytes(Tail(s), n - CharBytes(Head(s)))

\* The tail both decode_next and decode_rest compute for a pending buffer:
\* decode(pending) against decode(pending without its last token), sliced at
\* the byte length of the latter. kind: "some" with the text, "none", or
\* "panic" when the slice index is not on a character boundary.
PendingDelta(pending) ==
    LET decoded == Decode(pending)
        prev_decoded == IF Len(pending) > 1
                        THEN Decode(SubSeq(pending, 1, Len(pending) - 1))
                        ELSE <<>>
    IN IF ByteLen(decoded) > ByteLen(prev_decoded)
       THEN IF OnCharBoundary(decoded, ByteLen(prev_decoded))
            THEN [kind |-> "some", text |-> DropBytes(decoded, ByteLen(prev_decoded))]
            ELSE [kind |-> "panic", text |-> <<>>]
       ELSE [kind |-> "none", text |-> <<>>]

\* TokenizerWrapper::decode_next: the buffer after the push, and the result
DecodeNextPending(pending, token) == Append(pending, token)

DecodeNext(pending, token) == PendingDelta(DecodeNextPending(pending, token))

\* TokenizerWrapper::decode_rest
DecodeRest(pending) ==
    IF pending = <<>> THEN [kind |-> "none", text |-> <<>>] ELSE PendingDelta(pending)

\* The calls made on a tokenizer of its own.
MaxTokenizerCalls == 4

NoFragment == [kind |-> "none", text |-> <<>>]

NoTokenizerLog ==
    [pc |-> "ready", calls |-> 0, pushed |-> <<>>, fragments |-> <<>>,
     op |-> "none", before |-> <<>>, result |-> NoFragment]

\* TokenizerWrapper::clear_cache: pending_tokens.clear()
ClearCache(pending) == <<>>

\* The log after a call that returned Ok(result).
LogAfter(op, pushed, result) ==
    [pc |-> IF result.kind = "panic" THEN "panicked" ELSE "ready",
     calls |-> tokenizer_log.calls + 1,
     pushed |-> pushed,
     fragments |-> IF result.kind = "some"
                   THEN Append(tokenizer_log.fragments, result.text)
                   ELSE tokenizer_log.fragments,
     op |-> op,
     before |-> pending_tokens,
     result |-> result]

\* decode_next(token): the token is pushed, then the decodes may fail and
\* return Err through `?` with the token left in the buffer.
DecodeNextCall(token, decode_ok) ==
    /\ tokenizer_log.pc = "ready"
    /\ tokenizer_log.calls < MaxTokenizerCalls
    /\ pending_tokens' = DecodeNextPending(pending_tokens, token)
    /\ tokenizer_log' =
          IF decode_ok
          THEN LogAfter("decode_next", Append(tokenizer_log.pushed, token),
                        DecodeNext(pending_tokens, token))
          ELSE [LogAfter("decode_next", Append(tokenizer_log.pushed, token), NoFragment)
                   EXCEPT !.op = "decode_next_err"]
    /\ UNCHANGED not_tokenizer_vars

\* decode_rest(): nothing is removed from the buffer
DecodeRestCall(decode_ok) ==
    /\ tokenizer_log.pc = "ready"
    /\ tokenizer_log.calls < MaxTokenizerCalls
    /\ UNCHANGED pending_tokens
    /\ tokenizer_log' =
          IF decode_ok \/ pending_tokens = <<>>
          THEN LogAfter("decode_rest", tokenizer_log.pushed, DecodeRest(pending_tokens))
          ELSE [LogAfter("decode_rest", tokenizer_log.pushed, NoFragment)
                   EXCEPT !.op = "decode_rest_err"]
    /\ UNCHANGED not_tokenizer_vars

\* clear_cache()
ClearCacheCall ==
    /\ tokenizer_log.pc = "ready"
    /\ tokenizer_log.calls < MaxTokenizerCalls
    /\ pending_tokens' = ClearCache(pending_tokens)
    /\ tokenizer_log' =
          IF pending_tokens' = <<>>
          THEN [NoTokenizerLog EXCEPT !.calls = tokenizer_log.calls + 1,
                                      !.op = "clear_cache",
                                      !.before = pending_tokens]
          ELSE [tokenizer_log EXCEPT !.calls = @ + 1,
                                     !.op = "clear_cache",
                                     !.before = pending_tokens]
    /\ UNCHANGED not_tokenizer_vars

\* A tokenizer nobody has called yet.
TokenizerNew == tokenizer_log = NoTokenizerLog

TokenizerNext ==
    \/ \E token \in Tokens : \E decode_ok \in BOOLEAN : DecodeNextCall(token, decode_ok)
    \/ \E decode_ok \in BOOLEAN : DecodeRestCall(decode_ok)
    \/ ClearCacheCall

----------------------------------------------------------------------------
(* Generator *)

\* metadata.context_length of the modelled model file
ContextLength == 4

\* The number of generate calls of a run.
MaxCalls == 2

\* The max_tokens arguments and the lengths of the tokenized prompts.
MaxTokensChoices == {0, 1, 2}

PromptLens == {0, 1, 2, ContextLength + 1}

Prompts == {"p"}

\* The weights are not part of the source. AnyModel stands for any weights
\* and any sampler: the sampled token is any token of the vocabulary. A model
\* of Models is one fixed function: the token its logits favour depends on
\* how many tokens the call has generated. Models holds a few such
\* functions: an ordinary token or a lead byte first, then EOS or a
\* continuation byte.
AnyModel == <<"any">>

ModelPositions == 0 .. 1

Models ==
    {[p \in ModelPositions |-> IF p = 0 THEN first ELSE second] :
        first \in {TokA, TokLead}, second \in {EosToken, TokCont}}

\* The calls of a run with a model of Models.
MaxModelCalls == 3

\* The states of the sampler's rng.
RngStates == 2

\* Sampling::ArgMax for temperature <= 0, a seeded Sampling::All above.
Samplings == {"ArgMax", "All"}

\* LogitsProcessor::from_sampling(seed, sampling)
LogitsProcessorNew(sampling) == [sampling |-> sampling, rng |-> 0]

\* The tokens the call has generated so far.
Generated(call) == Len(call.all_tokens) - call.history_len - Len(call.prompt_tokens)

\* LogitsProcessor::sample on the logits of the model: ArgMax takes the token
\* the logits favour, a seeded sampling draws with its rng.
SampledToken(call) ==
    LET favoured == model[Min(Generated(call), 1)]
    IN IF logits_processor.sampling = "ArgMax" THEN favoured
       ELSE (favoured + logits_processor.rng) % Cardinality(Tokens)

\* The sampler after a draw: ArgMax has no state, a seeded sampling moves on.
AfterSample ==
    IF logits_processor.sampling = "ArgMax" THEN logits_processor
    ELSE [logits_processor EXCEPT !.rng = (@ + 1) % RngStates]

\* The generate calls of a run.
CallBound == IF model = AnyModel THEN MaxCalls ELSE MaxModelCalls

\* What TokenizerWrapper::encode may return for a rendered prompt.
PromptTokenSeqs == {[i \in 1 .. n |-> TokA] : n \in PromptLens}

PrefillStatus(n) == [type |-> "PrefillStatus", n |-> n, text |-> <<>>]

Token(text) == [type |-> "Token", n |-> 0, text |-> text]

Done == [type |-> "Done", n |-> 0, text |-> <<>>]

\* Generator::context_used
ContextUsed == Len(token_history)

\* Generator::context_limit
ContextLimit == ContextLength

\* A variant of the truncation that drops the newest tokens.
TruncateHistoryNewest(history, prompt_len, max_tokens) ==
    LET total_len == Len(history) + prompt_len + max_tokens
        excess == total_len - ContextLength
    IN IF total_len > ContextLength
       THEN IF excess < Len(history)
            THEN SubSeq(history, 1, Len(history) - excess)
            ELSE <<>>
       ELSE history

\* Generator::generate, the truncation of token_history before the run
TruncateHistory(history, prompt_len, max_tokens) ==
    LET total_len == Len(history) + prompt_len + max_tokens
        excess == total_len - ContextLength
    IN IF total_len > ContextLength
       THEN IF excess < Len(history)
            THEN SubSeq(history, excess + 1, Len(history))
            ELSE <<>>
       ELSE history

\* A variant that starts from the token history whatever store_history says.
InitialAllTokensWithHistory(history, prompt_tokens, max_tokens, store_history) ==
    LET total_len == Len(history) + Len(prompt_tokens) + max_tokens
        excess == total_len - ContextLength
        kept == IF total_len > ContextLength
                THEN IF excess < Len(history)
                     THEN SubSeq(history, excess + 1, Len(history))
                     ELSE <<>>
                ELSE history
    IN kept \o prompt_tokens

\* generate_internal_with_tokens: all_tokens before the prefill
InitialAllTokens(history, prompt_tokens, max_tokens, store_history) ==
    LET total_len == IF store_history
                     THEN Len(history) + Len(prompt_tokens) + max_tokens
                     ELSE Len(prompt_tokens) + max_tokens
        needs_truncation == total_len > ContextLength
        excess == total_len - ContextLength
        kept == IF ~store_history THEN <<>>
                ELSE IF needs_truncation
                THEN IF excess < Len(history)
                     THEN SubSeq(history, excess + 1, Len(history))
                     ELSE <<>>
                ELSE history
    IN kept \o prompt_tokens

\* Generator.system_prompt: None, or Some(text).
NoSystemPrompt == <<>>

SystemPrompt == <<"sys">>

\* The system message that heads the rendered messages when there is a
\* system prompt.
SystemMessages(sys) ==
    IF sys = NoSystemPrompt THEN <<>> ELSE <<[role |-> "system", content |-> sys[1]]>>

\* No generate_batch call has been made since the last other call.
NoGenBatch == [status |-> "none", prompts |-> <<>>, max_tokens |-> 0, results |-> <<>>,
               messages0 |-> <<>>, history0 |-> <<>>]

\* model.forward(tokens, pos), by the number of tokens and the position.
NoForward == [issued |-> FALSE, len |-> 0, position |-> 0]

ForwardCall(len, position) == [issued |-> TRUE, len |-> len, position |-> position]

NoWarmup == [len |-> 0, i |-> 0]

\* The messages generate pushes.
UserMessage(prompt) == [role |-> "user", content |-> prompt]

\* A variant that files the response under the user role.
AssistantMessageAsUser(response) == [role |-> "user", content |-> response]

AssistantMessage(response) == [role |-> "assistant", content |-> response]

\* The call returns Err through a `?`: the state stays as the call left it.
ReturnErr ==
    /\ gen_pc' = "idle"
    /\ gen_result' = "err"

\* Generator::generate up to the PrefillStatus callback: the user message is
\* pushed, the prompt rendered and tokenized, token_history truncated, and
\* generate_internal_with_tokens entered.
GenerateStart(prompt, max_tokens, render_ok, prompt_tokens) ==
    /\ UNCHANGED not_gen_vars
    /\ gen_pc = "idle"
    /\ calls < CallBound
    /\ calls' = calls + 1
    /\ messages' = Append(messages, UserMessage(prompt))
    /\ UNCHANGED <<has_template, pending_tokens, model, logits_processor, runs,
                   system_prompt, warmup_call>>
    /\ gen_batch' = NoGenBatch
    /\ last_forward' = NoForward
    /\ IF ~has_template \/ ~render_ok
       THEN /\ ReturnErr
            /\ events' = <<>>
            /\ gen_call' = [gen_call EXCEPT !.messages0 = messages,
                                            !.prompt = prompt,
                                            !.history0 = token_history,
                                            !.prompt_tokens = <<>>,
                                            !.max_tokens = max_tokens,
                                            !.all_tokens = <<>>,
                                            !.sampler0 = logits_processor,
                                            !.rendered = SystemMessages(system_prompt)
                                                            \o messages',
                                            !.response = <<>>]
            /\ UNCHANGED token_history
       ELSE LET history == TruncateHistory(token_history, Len(prompt_tokens), max_tokens)
            IN /\ token_history' = history
               /\ gen_call' = [messages0 |-> messages,
                               prompt |-> prompt,
                               history0 |-> token_history,
                               prompt_tokens |-> prompt_tokens,
                               max_tokens |-> max_tokens,
                               store_history |-> TRUE,
                               history_len |-> Len(history),
                               all_tokens |-> InitialAllTokens(history, prompt_tokens,
                                                               max_tokens, TRUE),
                               next_token |-> TokA,
                               iterations |-> 0,
                               sampler0 |-> logits_processor,
                               rendered |-> SystemMessages(system_prompt) \o messages',
                               response |-> <<>>]
               /\ events' = <<PrefillStatus(Len(prompt_tokens))>>
               /\ gen_pc' = "prefill"
               /\ gen_result' = "none"

\* A step of generate_internal_with_tokens inside generate_batch that
\* returned Err ends the generate_batch call with that error.
BatchAfterStep ==
    IF gen_batch.status = "running" /\ gen_pc' = "idle"
    THEN [gen_batch EXCEPT !.status = "err"]
    ELSE gen_batch

\* One forward + sample + push + decode_next, as the prefill and every
\* iteration of the decode loop do it. forward_ok: Forward, squeeze, the
\* repeat penalty and the sampler all succeeded; decode_ok: the decodes of
\* decode_next succeeded.
SampleAndEmit(forward_ok, token, decode_ok, iterations) ==
    /\ UNCHANGED <<has_template, messages, token_history, calls, model, runs,
                   system_prompt, warmup_call>>
    /\ IF ~forward_ok
       THEN /\ ReturnErr
            /\ UNCHANGED <<pending_tokens, events, gen_call, logits_processor>>
       ELSE LET delta == DecodeNext(pending_tokens, token)
            IN /\ IF model = AnyModel THEN TRUE ELSE token = SampledToken(gen_call)
               /\ logits_processor' = AfterSample
               /\ pending_tokens' = DecodeNextPending(pending_tokens, token)
               /\ gen_call' = [gen_call EXCEPT !.all_tokens = Append(@, token),
                                               !.next_token = token,
                                               !.iterations = iterations]
               /\ IF ~decode_ok
                  THEN /\ ReturnErr
                       /\ UNCHANGED events
                  ELSE IF delta.kind = "panic"
                  THEN /\ gen_pc' = "panicked"
                       /\ gen_result' = "panic"
                       /\ UNCHANGED events
                  ELSE /\ gen_pc' = "loop"
                       /\ gen_result' = "none"
                       /\ events' = IF delta.kind = "some"
                                    THEN Append(events, Token(delta.text))
                                    ELSE events

\* generate_internal_with_tokens: the prefill, Forward(prompt_tokens, 0), and
\* the first sampled token
GenPrefill(forward_ok, token, decode_ok) ==
    /\ UNCHANGED not_gen_vars
    /\ gen_pc = "prefill"
    /\ last_forward' = ForwardCall(Len(gen_call.prompt_tokens), 0)
    /\ SampleAndEmit(forward_ok, token, decode_ok, 0)
    /\ gen_batch' = BatchAfterStep

\* The decode loop `for _ in 1..max_tokens` goes on
LoopContinues ==
    /\ gen_call.iterations < gen_call.max_tokens - 1
    /\ gen_call.next_token # EosToken

\* One iteration of the decode loop
GenDecodeStep(forward_ok, token, decode_ok) ==
    /\ UNCHANGED not_gen_vars
    /\ gen_pc = "loop"
    /\ LoopContinues
    /\ last_forward' = ForwardCall(1, Len(gen_call.all_tokens) - 1)
    /\ SampleAndEmit(forward_ok, token, decode_ok, gen_call.iterations + 1)
    /\ gen_batch' = BatchAfterStep

\* A variant of the response slice that starts after the history the call
\* found, not after the history it kept.
ResponseTokensAfterFullHistory(call) ==
    SubSeq(call.all_tokens, Len(call.history0) + Len(call.prompt_tokens) + 1,
           Len(call.all_tokens))

\* all_tokens[history_len + prompt_tokens.len()..]
ResponseTokens(call) ==
    SubSeq(call.all_tokens, call.history_len + Len(call.prompt_tokens) + 1,
           Len(call.all_tokens))

\* A variant that reports Done before the decode_rest tail is flushed.
FinishEventsDoneFirst(evs, rest) ==
    IF rest.kind = "some" THEN Append(Append(evs, Done), Token(rest.text))
    ELSE Append(evs, Done)

\* The callbacks at the end of generate_internal_with_tokens: the decode_rest
\* tail as a last Token, then Done.
FinishEvents(evs, rest) ==
    IF rest.kind = "some" THEN Append(Append(evs, Token(rest.text)), Done)
    ELSE Append(evs, Done)

\* What a successful call started from, by the state a caller can name (the
\* messages, the token history, the sampler), its arguments, and what it gave.
RunRecord(call, evs, response) ==
    [messages0 |-> call.messages0, history0 |-> call.history0,
     sampler0 |-> call.sampler0, prompt_tokens |-> call.prompt_tokens,
     max_tokens |-> call.max_tokens, events |-> evs, response |-> response]

\* The end of generate_internal_with_tokens and of generate: decode_rest,
\* clear_cache, the history stored, Done, the response decoded and the
\* assistant message pushed. decode being a function, the last decode does
\* not fail on the very tokens decode_rest has just decoded; it can when
\* pending_tokens held more than the response.
GenFinish(rest_ok, decode_ok) ==
    /\ UNCHANGED not_gen_vars
    /\ gen_pc = "loop"
    /\ ~LoopContinues
    /\ gen_batch.status # "running"
    /\ UNCHANGED <<has_template, calls, model, logits_processor, system_prompt, gen_batch,
                   last_forward, warmup_call>>
    /\ IF ~rest_ok /\ pending_tokens # <<>>
       THEN /\ ReturnErr
            /\ UNCHANGED <<pending_tokens, events, gen_call, token_history, messages, runs>>
       ELSE LET rest == DecodeRest(pending_tokens)
                response == Decode(ResponseTokens(gen_call))
            IN IF rest.kind = "panic"
                  \/ gen_call.history_len + Len(gen_call.prompt_tokens)
                        > Len(gen_call.all_tokens)
               THEN /\ gen_pc' = "panicked"
                    /\ gen_result' = "panic"
                    /\ UNCHANGED <<pending_tokens, events, gen_call, token_history,
                                   messages, runs>>
               ELSE /\ pending_tokens' = <<>>
                    /\ token_history' = IF gen_call.store_history
                                        THEN gen_call.all_tokens
                                        ELSE token_history
                    /\ events' = FinishEvents(events, rest)
                    /\ gen_pc' = "idle"
                    /\ IF decode_ok \/ pending_tokens = ResponseTokens(gen_call)
                       THEN /\ gen_result' = "ok"
                            /\ gen_call' = [gen_call EXCEPT !.response = response]
                            /\ messages' = Append(messages, AssistantMessage(response))
                            /\ runs' = IF model = AnyModel \/ runs # <<>> THEN runs
                                       ELSE <<RunRecord(gen_call,
                                                        FinishEvents(events, rest),
                                                        response)>>
                       ELSE /\ gen_result' = "err"
                            /\ UNCHANGED <<gen_call, messages, runs>>

\* A variant of clear_history that empties the messages only.
clearHistoryKeepsTokens ==
    /\ UNCHANGED not_gen_vars
    /\ gen_pc = "idle"
    /\ messages' = <<>>
    /\ gen_result' = "none"
    /\ gen_batch' = NoGenBatch
    /\ UNCHANGED <<has_template, token_history, pending_tokens, gen_pc, gen_call, events,
                   calls, model, logits_processor, runs, system_prompt, last_forward,
                   warmup_call>>

\* Generator::clear_history
clear_history ==
    /\ UNCHANGED not_gen_vars
    /\ gen_pc = "idle"
    /\ messages' = <<>>
    /\ token_history' = <<>>
    /\ gen_result' = "none"
    /\ gen_batch' = NoGenBatch
    /\ UNCHANGED <<has_template, pending_tokens, gen_pc, gen_call, events, calls, model,
                   logits_processor, runs, system_prompt, last_forward, warmup_call>>

\* Generator::new: the state of a constructed generator
GenNewFull(template, weights, sampling, sys) ==
    /\ has_template = template
    /\ system_prompt = sys
    /\ gen_batch = NoGenBatch
    /\ last_forward = NoForward
    /\ warmup_call = NoWarmup
    /\ model = weights
    /\ logits_processor = LogitsProcessorNew(sampling)
    /\ runs = <<>>
    /\ messages = <<>>
    /\ token_history = <<>>
    /\ pending_tokens = <<>>
    /\ gen_pc = "idle"
    /\ gen_call = [messages0 |-> <<>>, prompt |-> "", history0 |-> <<>>,
                   prompt_tokens |-> <<>>,
                   max_tokens |-> 0, store_history |-> TRUE, history_len |-> 0,
                   all_tokens |-> <<>>, next_token |-> TokA, iterations |-> 0,
                   sampler0 |-> LogitsProcessorNew(sampling), rendered |-> <<>>,
                   response |-> <<>>]
    /\ events = <<>>
    /\ gen_result = "none"
    /\ calls = 0

\* A generator without a system prompt.
GenNewWith(template, weights, sampling) ==
    GenNewFull(template, weights, sampling, NoSystemPrompt)

\* A generator over any weights.
GenNew(template) == GenNewWith(template, AnyModel, "ArgMax")

\* The prompt lists given to generate_batch, and what the tokenizer makes
\* of each prompt once rendered: encode is a function of the rendered text.
BatchPromptLists == {<<>>, <<"p">>, <<"p", "q">>, <<"q", "p">>}

EncodeBatchPrompt(prompt) == IF prompt = "p" THEN <<TokA>> ELSE <<TokA, TokA>>

\* generate_internal_with_tokens(&prompt_tokens, .., false, |_| {}) entered
\* for one prompt of the batch: the messages rendered are the system message
\* and this prompt, and the run starts from the prompt tokens.
BatchItemCall(prompt, max_tokens) ==
    [messages0 |-> messages,
     prompt |-> prompt,
     history0 |-> token_history,
     prompt_tokens |-> EncodeBatchPrompt(prompt),
     max_tokens |-> max_tokens,
     store_history |-> FALSE,
     history_len |-> 0,
     all_tokens |-> InitialAllTokens(token_history, EncodeBatchPrompt(prompt),
                                     max_tokens, FALSE),
     next_token |-> TokA,
     iterations |-> 0,
     sampler0 |-> logits_processor,
     rendered |-> SystemMessages(system_prompt) \o <<UserMessage(prompt)>>,
     response |-> <<>>]

\* One response of generate_batch: the prompt it answers, the messages
\* rendered for it, the tokens its run started from and the text decoded.
BatchItemResult(call) ==
    [prompt |-> call.prompt,
     rendered |-> call.rendered,
     context |-> SubSeq(call.all_tokens, 1, Len(call.all_tokens) - Generated(call)),
     response |-> Decode(ResponseTokens(call))]

\* Generator::generate_batch up to the first run: every prompt is rendered
\* and tokenized, an error of any of them returns before anything is
\* generated; no prompt, no run.
GenerateBatchStart(prompts, max_tokens, render_ok) ==
    /\ UNCHANGED not_gen_vars
    /\ gen_pc = "idle"
    /\ calls < CallBound
    /\ calls' = calls + 1
    /\ last_forward' = NoForward
    /\ UNCHANGED <<has_template, messages, token_history, pending_tokens, model,
                   logits_processor, runs, system_prompt, warmup_call>>
    /\ IF prompts # <<>> /\ (~has_template \/ ~render_ok)
       THEN /\ ReturnErr
            /\ gen_batch' = [status |-> "err", prompts |-> prompts,
                             max_tokens |-> max_tokens, results |-> <<>>,
                             messages0 |-> messages, history0 |-> token_history]
            /\ UNCHANGED <<gen_call, events>>
       ELSE IF prompts = <<>>
       THEN /\ gen_pc' = "idle"
            /\ gen_result' = "ok"
            /\ gen_batch' = [status |-> "ok", prompts |-> prompts,
                             max_tokens |-> max_tokens, results |-> <<>>,
                             messages0 |-> messages, history0 |-> token_history]
            /\ UNCHANGED <<gen_call, events>>
       ELSE /\ gen_batch' = [status |-> "running", prompts |-> prompts,
                             max_tokens |-> max_tokens, results |-> <<>>,
                             messages0 |-> messages, history0 |-> token_history]
            /\ gen_call' = BatchItemCall(prompts[1], max_tokens)
            /\ events' = <<PrefillStatus(Len(EncodeBatchPrompt(prompts[1])))>>
            /\ gen_pc' = "prefill"
            /\ gen_result' = "none"

\* The end of one run of generate_batch: decode_rest, clear_cache, no
\* history stored, the response decoded and pushed to results; then the run
\* of the next prompt, or Ok(results) after the last.
BatchItemFinish(rest_ok, decode_ok) ==
    /\ UNCHANGED not_gen_vars
    /\ gen_pc = "loop"
    /\ ~LoopContinues
    /\ gen_batch.status = "running"
    /\ UNCHANGED <<has_template, messages, calls, model, logits_processor, runs,
                   system_prompt, last_forward, warmup_call>>
    /\ IF ~rest_ok /\ pending_tokens # <<>>
       THEN /\ ReturnErr
            /\ gen_batch' = [gen_batch EXCEPT !.status = "err"]
            /\ UNCHANGED <<pending_tokens, events, gen_call, token_history>>
       ELSE LET rest == DecodeRest(pending_tokens)
                results == Append(gen_batch.results, BatchItemResult(gen_call))
            IN IF rest.kind = "panic"
               THEN /\ gen_pc' = "panicked"
                    /\ gen_result' = "panic"
                    /\ UNCHANGED <<pending_tokens, events, gen_call, token_history,
                                   gen_batch>>
               ELSE /\ pending_tokens' = <<>>
                    /\ token_history' = IF gen_call.store_history
                                        THEN gen_call.all_tokens
                                        ELSE token_history
                    /\ IF ~(decode_ok \/ pending_tokens = ResponseTokens(gen_call))
                       THEN /\ ReturnErr
                            /\ events' = FinishEvents(events, rest)
                            /\ gen_batch' = [gen_batch EXCEPT !.status = "err"]
                            /\ UNCHANGED gen_call
                       ELSE IF Len(results) = Len(gen_batch.prompts)
                       THEN /\ gen_pc' = "idle"
                            /\ gen_result' = "ok"
                            /\ events' = FinishEvents(events, rest)
                            /\ gen_batch' = [gen_batch EXCEPT !.status = "ok",
                                                              !.results = results]
                            /\ gen_call' = [gen_call EXCEPT
                                               !.response = Decode(ResponseTokens(gen_call))]
                       ELSE LET next == gen_batch.prompts[Len(results) + 1]
                            IN /\ gen_pc' = "prefill"
                               /\ gen_result' = "none"
                               /\ events' = <<PrefillStatus(Len(EncodeBatchPrompt(next)))>>
                               /\ gen_batch' = [gen_batch EXCEPT !.results = results]
                               /\ gen_call' = BatchItemCall(next, gen_batch.max_tokens)

\* Generator::warmup: the warmup tokens are min(num_warmup_tokens, 512)
\* zeros, forwarded in strides of 64.
WarmupCap == 512

WarmupStride == 64

WarmupSizes == {0, 1, WarmupStride + 1, WarmupCap + 1}

WarmupStart(num_warmup_tokens) ==
    /\ UNCHANGED not_gen_vars
    /\ gen_pc = "idle"
    /\ calls < CallBound
    /\ calls' = calls + 1
    /\ warmup_call' = [len |-> Min(num_warmup_tokens, WarmupCap), i |-> 0]
    /\ gen_pc' = "warmup"
    /\ gen_result' = "none"
    /\ gen_batch' = NoGenBatch
    /\ last_forward' = NoForward
    /\ UNCHANGED <<has_template, messages, token_history, pending_tokens, gen_call,
                   events, model, logits_processor, runs, system_prompt>>

\* One stride of warmup: model.forward(&warmup_tokens[i..end], i)?
WarmupForward(forward_ok) ==
    /\ UNCHANGED not_gen_vars
    /\ gen_pc = "warmup"
    /\ warmup_call.i < warmup_call.len
    /\ last_forward' = ForwardCall(Min(warmup_call.i + WarmupStride, warmup_call.len)
                                       - warmup_call.i,
                                   warmup_call.i)
    /\ IF forward_ok
       THEN /\ warmup_call' = [warmup_call EXCEPT !.i = @ + WarmupStride]
            /\ UNCHANGED <<gen_pc, gen_result>>
       ELSE /\ ReturnErr
            /\ warmup_call' = NoWarmup
    /\ UNCHANGED <<has_template, messages, token_history, pending_tokens, gen_call,
                   events, calls, model, logits_processor, runs, system_prompt, gen_batch>>

\* warmup returns Ok(()) after the last stride
WarmupEnd ==
    /\ UNCHANGED not_gen_vars
    /\ gen_pc = "warmup"
    /\ warmup_call.i >= warmup_call.len
    /\ gen_pc' = "idle"
    /\ gen_result' = "ok"
    /\ warmup_call' = NoWarmup
    /\ UNCHANGED <<has_template, messages, token_history, pending_tokens, gen_call,
                   events, calls, model, logits_processor, runs, system_prompt, gen_batch,
                   last_forward>>

GenNext ==
    \/ \E prompt \in Prompts, max_tokens \in MaxTokensChoices, render_ok \in BOOLEAN,
          prompt_tokens \in PromptTokenSeqs :
          GenerateStart(prompt, max_tokens, render_ok, prompt_tokens)
    \/ \E forward_ok \in BOOLEAN, token \in Tokens, decode_ok \in BOOLEAN :
          GenPrefill(forward_ok, token, decode_ok)
    \/ \E forward_ok \in BOOLEAN, token \in Tokens, decode_ok \in BOOLEAN :
          GenDecodeStep(forward_ok, token, decode_ok)
    \/ \E rest_ok \in BOOLEAN, decode_ok \in BOOLEAN : GenFinish(rest_ok, decode_ok)
    \/ clear_history

\* Every operation of the generator: generate, clear_history, generate_batch
\* and warmup.
GeneratorNext ==
    \/ GenNext
    \/ \E prompts \in BatchPromptLists, max_tokens \in MaxTokensChoices,
          render_ok \in BOOLEAN : GenerateBatchStart(prompts, max_tokens, render_ok)
    \/ \E rest_ok \in BOOLEAN, decode_ok \in BOOLEAN : BatchItemFinish(rest_ok, decode_ok)
    \/ \E num_warmup_tokens \in WarmupSizes : WarmupStart(num_warmup_tokens)
    \/ \E forward_ok \in BOOLEAN : WarmupForward(forward_ok)
    \/ WarmupEnd

----------------------------------------------------------------------------
(* DynamicBatcher *)

\* The BatchConfig of the modelled batcher, and the number of callers.
MaxBatchSize == 2

BatchWindowMs == 2

MaxQueueSize == 2

NumCallers == 2

Callers == 1 .. NumCallers

\* The ids batch_counter.fetch_add hands out to NumCallers calls.
RequestIds == 0 .. (NumCallers - 1)

\* The arguments of the modelled calls: every caller has a prompt and
\* parameters of its own, so that a response or a parameter that reaches the
\* wrong request shows.
PromptOf(c) == <<"prompt", c>>

MaxTokensOf(c) == c

\* repeat_penalty, in tenths, and repeat_last_n of the call of caller c.
RepeatPenaltyOf(c) == 10 + c

RepeatLastNOf(c) == 64 * c

NoRequest == [id |-> 0, prompt |-> <<>>, max_tokens |-> 0, repeat_penalty |-> 0,
              repeat_last_n |-> 0]

NoParams == [max_tokens |-> 0, repeat_penalty |-> 0, repeat_last_n |-> 0]

NoOutput == [prompt |-> <<>>, index |-> 0, params |-> NoParams]

NoResult == [id |-> 0, kind |-> "none", output |-> NoOutput, error |-> ""]

NoBatch == [requests |-> <<>>, set_time |-> FALSE, break |-> FALSE, then_push |-> <<>>]

\* struct BatchResult { id, result: Result<String, String> }
BatchResult(id, kind, output, error) ==
    [id |-> id, kind |-> kind, output |-> output, error |-> error]

\* A variant that takes the parameters of the last request of the batch.
BatchParamsOfLast(requests) ==
    [max_tokens |-> requests[Len(requests)].max_tokens,
     repeat_penalty |-> requests[Len(requests)].repeat_penalty,
     repeat_last_n |-> requests[Len(requests)].repeat_last_n]

\* process_batch: max_tokens, repeat_penalty and repeat_last_n of the batch
\* are those of requests.first().
BatchParams(requests) ==
    [max_tokens |-> requests[1].max_tokens,
     repeat_penalty |-> requests[1].repeat_penalty,
     repeat_last_n |-> requests[1].repeat_last_n]

\* The prompts handed to generate_batch, in request order.
BatchPrompts(requests) == [i \in 1 .. Len(requests) |-> requests[i].prompt]

\* Generator::generate_batch on success: one response per prompt, in prompt
\* order, each generated from its prompt with the shared parameters. A
\* response is named by the prompt it answers, its place in the batch and
\* the parameters it was generated with.
GenerateBatchOutputs(prompts, params) ==
    [i \in 1 .. Len(prompts) |->
        [prompt |-> prompts[i], index |-> i, params |-> params]]

\* A variant that hands the outputs out from the last to the first.
ZipOutputsReversed(requests, outputs) ==
    [i \in 1 .. Min(Len(requests), Len(outputs)) |->
        BatchResult(requests[i].id, "ok", outputs[Len(outputs) + 1 - i], "")]

\* requests.into_iter().zip(outputs.into_iter()): the i-th request gets the
\* i-th output, under its own id.
ZipOutputs(requests, outputs) ==
    [i \in 1 .. Min(Len(requests), Len(outputs)) |->
        BatchResult(requests[i].id, "ok", outputs[i], "")]

\* A variant of the error arms that answers the first request only.
ErrorResultsFirstOnly(requests, error) ==
    <<BatchResult(requests[1].id, "err", NoOutput, error)>>

\* The error arms of process_batch: the error string goes to every request.
ErrorResults(requests, error) ==
    [i \in 1 .. Len(requests) |-> BatchResult(requests[i].id, "err", NoOutput, error)]

\* A variant of process_batch that answers with outputs even when there is
\* no generator.
BatchResultsWithoutGenerator(requests, outcome) ==
    IF outcome \in {"ok", "no_generator"}
    THEN ZipOutputs(requests,
                    GenerateBatchOutputs(BatchPrompts(requests), BatchParams(requests)))
    ELSE ErrorResults(requests, "generate_batch failed")

\* process_batch: the BatchResults it sends, by what the blocking task gave.
BatchResults(requests, outcome) ==
    CASE outcome = "ok" ->
            ZipOutputs(requests,
                       GenerateBatchOutputs(BatchPrompts(requests), BatchParams(requests)))
      [] outcome = "err" -> ErrorResults(requests, "generate_batch failed")
      [] outcome = "join_err" -> ErrorResults(requests, "Task join error")
      [] outcome = "no_generator" ->
            ErrorResults(requests, "Generator not connected to batcher")

\* The receiver of the reply slot of a request has been dropped.
ReceiverDropped(id) ==
    \E c \in Callers : callers[c].pc = "abandoned" /\ callers[c].req.id = id

\* A variant of the sends that stops at the first send that fails.
PostedAfterUntilDropped(results) ==
    LET sent == {i \in 1 .. Len(results) :
                    \A k \in 1 .. i : ~ReceiverDropped(results[k].id)}
    IN [id \in RequestIds |->
           posted[id] \o SelectSeq(SubSeq(results, 1, Cardinality(sent)),
                                   LAMBDA r : r.id = id)]

\* req.sender.send(..) for each result; a send to a dropped receiver fails
\* and is ignored.
PostedAfter(results) ==
    [id \in RequestIds |->
        posted[id] \o SelectSeq(results, LAMBDA r : r.id = id)]

\* process_batch has sent its results; the loop goes on as the calling arm
\* of batcher_loop says.
FinishBatch(requests, outcome, cont) ==
    /\ posted' = PostedAfter(BatchResults(requests, outcome))
    /\ pending_requests' = cont.then_push
    /\ elapsed' = IF cont.set_time THEN 0 ELSE elapsed
    /\ loop_pc' = IF cont.break THEN "exited" ELSE "top"
    /\ in_flight' = NoBatch

\* A variant of the dispatch that hands the batch to a task of its own and
\* goes on without awaiting it.
DispatchDetached(requests, cont) ==
    /\ batches' = Append(batches, requests)
    /\ poll_elapsed' = 0
    /\ in_flight' = NoBatch
    /\ loop_pc' = IF cont.break THEN "exited" ELSE "top"
    /\ pending_requests' = cont.then_push
    /\ elapsed' = IF cont.set_time THEN 0 ELSE elapsed
    /\ UNCHANGED posted

\* pending_requests.drain(..) and process_batch(requests, generator): without
\* a generator the results are sent at once, with one the loop awaits the
\* blocking task.
Dispatch(requests, cont) ==
    /\ batches' = Append(batches, requests)
    /\ poll_elapsed' = 0
    /\ IF has_generator
       THEN /\ in_flight' = [requests |-> requests, set_time |-> cont.set_time,
                             break |-> cont.break, then_push |-> cont.then_push]
            /\ loop_pc' = "processing"
            /\ pending_requests' = <<>>
            /\ UNCHANGED <<posted, elapsed>>
       ELSE FinishBatch(requests, "no_generator", cont)

\* A variant of the push that puts the request in front.
PushFront(requests, req) == <<req>> \o requests

\* pending_requests.push(req)
Push(requests, req) == Append(requests, req)

\* The flush condition of the loop (line 157)
FlushDue ==
    elapsed >= BatchWindowMs \/ Len(pending_requests) >= max_batch_size

\* Loop top, pending empty: go on to request_rx.recv().await
LoopTopEmpty ==
    /\ loop_pc = "top"
    /\ pending_requests = <<>>
    /\ loop_pc' = "recv"
    /\ UNCHANGED <<has_generator, max_batch_size, batch_counter, request_rx, closed, callers,
                   pending_requests, elapsed, poll_elapsed, in_flight, posted, batches,
                   burst>>
    /\ UNCHANGED arrived
    /\ UNCHANGED not_batcher_vars

\* Loop top, window elapsed or batch full: drain and dispatch
LoopTopFlush ==
    /\ loop_pc = "top"
    /\ pending_requests # <<>>
    /\ FlushDue
    /\ Dispatch(pending_requests, [set_time |-> TRUE, break |-> FALSE, then_push |-> <<>>])
    /\ UNCHANGED <<has_generator, max_batch_size, batch_counter, request_rx, closed, callers, burst>>
    /\ UNCHANGED arrived
    /\ UNCHANGED not_batcher_vars

\* Loop top, otherwise: start timeout(1 ms, request_rx.recv())
LoopTopPoll ==
    /\ loop_pc = "top"
    /\ pending_requests # <<>>
    /\ ~FlushDue
    /\ loop_pc' = "poll"
    /\ poll_elapsed' = 0
    /\ UNCHANGED <<has_generator, max_batch_size, batch_counter, request_rx, closed, callers,
                   pending_requests, elapsed, in_flight, posted, batches, burst>>
    /\ UNCHANGED arrived
    /\ UNCHANGED not_batcher_vars

\* request_rx.recv() gives Some(req) with pending empty: push it and mark the
\* window start
Recv ==
    /\ loop_pc = "recv"
    /\ request_rx # <<>>
    /\ pending_requests' = <<Head(request_rx)>>
    /\ request_rx' = Tail(request_rx)
    /\ elapsed' = 0
    /\ loop_pc' = "top"
    /\ UNCHANGED <<has_generator, max_batch_size, batch_counter, closed, callers, poll_elapsed,
                   in_flight, posted, batches, burst>>
    /\ UNCHANGED arrived
    /\ UNCHANGED not_batcher_vars

\* request_rx.recv() gives None: the channel is closed and empty, break
RecvClosed ==
    /\ loop_pc = "recv"
    /\ request_rx = <<>>
    /\ closed
    /\ loop_pc' = "exited"
    /\ UNCHANGED <<has_generator, max_batch_size, batch_counter, request_rx, closed, callers,
                   pending_requests, elapsed, poll_elapsed, in_flight, posted, batches,
                   burst>>
    /\ UNCHANGED arrived
    /\ UNCHANGED not_batcher_vars

\* The poll gives Ok(Some(req)): push, or flush and then push
PollRecv ==
    /\ loop_pc = "poll"
    /\ request_rx # <<>>
    /\ request_rx' = Tail(request_rx)
    /\ IF Len(pending_requests) < max_batch_size
       THEN /\ pending_requests' = Push(pending_requests, Head(request_rx))
            /\ loop_pc' = "top"
            /\ poll_elapsed' = 0
            /\ UNCHANGED <<elapsed, in_flight, posted, batches>>
       ELSE Dispatch(pending_requests, [set_time |-> TRUE, break |-> FALSE,
                                        then_push |-> <<Head(request_rx)>>])
    /\ UNCHANGED <<has_generator, max_batch_size, batch_counter, closed, callers, burst>>
    /\ UNCHANGED arrived
    /\ UNCHANGED not_batcher_vars

\* A variant of the Ok(None) arm that breaks without the flush.
PollClosedWithoutFlush ==
    /\ loop_pc = "poll"
    /\ request_rx = <<>>
    /\ closed
    /\ loop_pc' = "exited"
    /\ UNCHANGED <<has_generator, max_batch_size, batch_counter, request_rx, closed,
                   callers, pending_requests, elapsed, poll_elapsed, in_flight, posted,
                   batches, burst>>
    /\ UNCHANGED arrived
    /\ UNCHANGED not_batcher_vars

\* The poll gives Ok(None): flush what is pending and break
PollClosed ==
    /\ loop_pc = "poll"
    /\ request_rx = <<>>
    /\ closed
    /\ Dispatch(pending_requests, [set_time |-> FALSE, break |-> TRUE, then_push |-> <<>>])
    /\ UNCHANGED <<has_generator, max_batch_size, batch_counter, request_rx, closed, callers, burst>>
    /\ UNCHANGED arrived
    /\ UNCHANGED not_batcher_vars

\* The poll gives Err(Elapsed) after 1 ms without a request: flush what is
\* pending
PollTimeout ==
    /\ loop_pc = "poll"
    /\ request_rx = <<>>
    /\ ~closed
    /\ poll_elapsed >= 1
    /\ Dispatch(pending_requests, [set_time |-> TRUE, break |-> FALSE, then_push |-> <<>>])
    /\ UNCHANGED <<has_generator, max_batch_size, batch_counter, request_rx, closed, callers, burst>>
    /\ UNCHANGED arrived
    /\ UNCHANGED not_batcher_vars

\* The blocking task of process_batch is through: Ok(Ok(outputs)),
\* Ok(Err(e)) or Err(join error)
BatchDone(outcome) ==
    /\ loop_pc = "processing"
    /\ FinishBatch(in_flight.requests, outcome, in_flight)
    /\ UNCHANGED <<has_generator, max_batch_size, batch_counter, request_rx, closed, callers,
                   poll_elapsed, batches, burst>>
    /\ UNCHANGED arrived
    /\ UNCHANGED not_batcher_vars

\* One millisecond passes. last_batch_time.elapsed() is read at the loop top
\* with pending non-empty only, and last_batch_time is set anew whenever a
\* request enters an empty pending: it is counted while pending is non-empty.
Tick ==
    /\ elapsed' = IF pending_requests # <<>> THEN Min(elapsed + 1, BatchWindowMs) ELSE elapsed
    /\ poll_elapsed' = IF loop_pc = "poll" THEN 1 ELSE poll_elapsed
    /\ burst' = IF burst.started
                THEN [burst EXCEPT !.elapsed = Min(@ + 1, BatchWindowMs + 1)]
                ELSE burst
    /\ UNCHANGED <<has_generator, max_batch_size, batch_counter, request_rx, closed, callers,
                   pending_requests, loop_pc, in_flight, posted, batches>>
    /\ UNCHANGED arrived
    /\ UNCHANGED not_batcher_vars

\* DynamicBatcher::generate up to the send: the id is drawn and the request
\* built. The callers being alike, they are numbered in the order they call.
Submit(c, prompt, max_tokens, repeat_penalty, repeat_last_n) ==
    /\ callers[c].pc = "idle"
    /\ \A b \in Callers : b < c => callers[b].pc # "idle"
    /\ ~closed
    /\ callers' = [callers EXCEPT ![c] =
                      [pc |-> "sending",
                       req |-> [id |-> batch_counter, prompt |-> prompt,
                                max_tokens |-> max_tokens,
                                repeat_penalty |-> repeat_penalty,
                                repeat_last_n |-> repeat_last_n],
                       result |-> NoResult]]
    /\ batch_counter' = batch_counter + 1
    /\ UNCHANGED <<has_generator, max_batch_size, request_rx, closed, pending_requests, loop_pc, elapsed,
                   poll_elapsed, in_flight, posted, batches, burst>>
    /\ UNCHANGED arrived
    /\ UNCHANGED not_batcher_vars

\* request_tx.send(request).await: the request enters the bounded channel
\* once there is room, or the send fails when the receiver is gone
Enqueue(c) ==
    /\ callers[c].pc = "sending"
    /\ IF loop_pc = "exited"
       THEN /\ callers' = [callers EXCEPT ![c].pc = "returned",
                                          ![c].result = BatchResult(callers[c].req.id, "err",
                                                          NoOutput, "Batcher channel closed")]
            /\ UNCHANGED <<request_rx, burst>>
       ELSE /\ Len(request_rx) < MaxQueueSize
            /\ request_rx' = Append(request_rx, callers[c].req)
            /\ callers' = [callers EXCEPT ![c].pc = "waiting"]
            /\ burst' = [started |-> TRUE,
                         elapsed |-> burst.elapsed,
                         in_window |-> burst.in_window /\ burst.elapsed <= BatchWindowMs]
    /\ UNCHANGED <<has_generator, max_batch_size, batch_counter, closed, pending_requests, loop_pc, elapsed,
                   poll_elapsed, in_flight, posted, batches>>
    /\ arrived' = IF loop_pc = "exited" THEN arrived ELSE Append(arrived, callers[c].req)
    /\ UNCHANGED not_batcher_vars

\* The request is still on its way to process_batch.
InBatcher(id) ==
    \/ \E i \in 1 .. Len(request_rx) : request_rx[i].id = id
    \/ \E i \in 1 .. Len(pending_requests) : pending_requests[i].id = id
    \/ \E i \in 1 .. Len(in_flight.requests) : in_flight.requests[i].id = id
    \/ \E i \in 1 .. Len(in_flight.then_push) : in_flight.then_push[i].id = id

\* receiver.await: the BatchResult sent on the reply slot, or "Request
\* cancelled" when the sender was dropped without a send
CallerReceive(c) ==
    /\ callers[c].pc = "waiting"
    /\ posted[callers[c].req.id] # <<>> \/ ~InBatcher(callers[c].req.id)
    /\ callers' = [callers EXCEPT ![c].pc = "returned",
                                  ![c].result =
                                      IF posted[callers[c].req.id] # <<>>
                                      THEN Head(posted[callers[c].req.id])
                                      ELSE BatchResult(callers[c].req.id, "err", NoOutput,
                                                       "Request cancelled")]
    /\ UNCHANGED <<has_generator, max_batch_size, batch_counter, request_rx, closed, pending_requests,
                   loop_pc, elapsed, poll_elapsed, in_flight, posted, batches, burst>>
    /\ UNCHANGED arrived
    /\ UNCHANGED not_batcher_vars

\* The caller drops the future of generate() while it awaits the reply: its
\* receiver is gone
Abandon(c) ==
    /\ callers[c].pc = "waiting"
    /\ callers' = [callers EXCEPT ![c].pc = "abandoned",
                                  ![c].result =
                                      BatchResult(callers[c].req.id,
                                                  IF posted[callers[c].req.id] = <<>>
                                                  THEN "dropped" ELSE "unread",
                                                  NoOutput, "")]
    /\ UNCHANGED <<has_generator, max_batch_size, batch_counter, request_rx, closed, pending_requests,
                   loop_pc, elapsed, poll_elapsed, in_flight, posted, batches, burst>>
    /\ UNCHANGED arrived
    /\ UNCHANGED not_batcher_vars

\* The last DynamicBatcher handle is dropped; a running generate() borrows one
DropHandles ==
    /\ ~closed
    /\ \A c \in Callers : callers[c].pc \notin {"sending", "waiting"}
    /\ closed' = TRUE
    /\ UNCHANGED <<has_generator, max_batch_size, batch_counter, request_rx, callers, pending_requests,
                   loop_pc, elapsed, poll_elapsed, in_flight, posted, batches, burst>>
    /\ UNCHANGED arrived
    /\ UNCHANGED not_batcher_vars

\* DynamicBatcher::new / with_generator with a BatchConfig of the given
\* max_batch_size, and the batcher_loop task spawned
BatcherNewWith(generator, size) ==
    /\ has_generator = generator
    /\ max_batch_size = size
    /\ arrived = <<>>
    /\ batch_counter = 0
    /\ request_rx = <<>>
    /\ closed = FALSE
    /\ callers = [c \in Callers |-> [pc |-> "idle", req |-> NoRequest, result |-> NoResult]]
    /\ pending_requests = <<>>
    /\ loop_pc = "top"
    /\ elapsed = 0
    /\ poll_elapsed = 0
    /\ in_flight = NoBatch
    /\ posted = [id \in RequestIds |-> <<>>]
    /\ batches = <<>>
    /\ burst = [started |-> FALSE, elapsed |-> 0, in_window |-> TRUE]

\* The batcher of the modelled configuration
BatcherNew(generator) == BatcherNewWith(generator, MaxBatchSize)

\* The steps of the batcher_loop task
LoopStep ==
    \/ LoopTopEmpty
    \/ LoopTopFlush
    \/ LoopTopPoll
    \/ Recv
    \/ RecvClosed
    \/ PollRecv
    \/ PollClosed
    \/ PollTimeout

BatcherNext ==
    \/ LoopStep
    \/ \E outcome \in {"ok", "err", "join_err"} : BatchDone(outcome)
    \/ Tick
    \/ \E c \in Callers :
          Submit(c, PromptOf(c), MaxTokensOf(c), RepeatPenaltyOf(c), RepeatLastNOf(c))
    \/ \E c \in Callers : Enqueue(c)
    \/ \E c \in Callers : CallerReceive(c)
    \/ \E c \in Callers : Abandon(c)
    \/ DropHandles

----------------------------------------------------------------------------
(* Several batchers over one generator *)

\* The batchers built with with_generator over clones of one
\* Arc<Mutex<Generator>>, and the batches each of them dispatches.
NumBatchers == 2

MaxTaskBatches == 2

Batchers == 1 .. NumBatchers

Unlocked == 0

\* A variant of the lock that is granted whoever holds it.
MutexAlwaysFree == TRUE

\* tokio::sync::Mutex: blocking_lock returns once no guard is alive.
MutexFree == gen_mutex = Unlocked

\* process_batch of batcher b reaches spawn_blocking: its closure is queued
\* on the blocking pool, the loop of b awaits it and dispatches nothing else.
TaskSpawn(b) ==
    /\ blocking_tasks[b].pc = "idle"
    /\ blocking_tasks[b].done < MaxTaskBatches
    /\ blocking_tasks' = [blocking_tasks EXCEPT ![b].pc = "spawned"]
    /\ UNCHANGED gen_mutex
    /\ UNCHANGED not_shared_vars

\* gen.blocking_lock() returns the guard: generate_batch starts
TaskLock(b) ==
    /\ blocking_tasks[b].pc = "spawned"
    /\ MutexFree
    /\ gen_mutex' = b
    /\ blocking_tasks' = [blocking_tasks EXCEPT ![b].pc = "running"]
    /\ UNCHANGED not_shared_vars

\* The closure ends: generate_batch returned Ok or Err, or it panicked and
\* the task ends in a join error; the guard is dropped in each case.
TaskEnd(b, outcome) ==
    /\ blocking_tasks[b].pc = "running"
    /\ gen_mutex' = IF gen_mutex = b THEN Unlocked ELSE gen_mutex
    /\ blocking_tasks' = [blocking_tasks EXCEPT ![b] =
                             [pc |-> "idle", done |-> @.done + 1, outcome |-> outcome]]
    /\ UNCHANGED not_shared_vars

\* Arc::new(Mutex::new(generator)) and the batchers built over it
SharedNew ==
    /\ gen_mutex = Unlocked
    /\ blocking_tasks = [b \in Batchers |-> [pc |-> "idle", done |-> 0, outcome |-> "none"]]

SharedNext ==
    \/ \E b \in Batchers : TaskSpawn(b)
    \/ \E b \in Batchers : TaskLock(b)
    \/ \E b \in Batchers, outcome \in {"ok", "err", "join_err"} : TaskEnd(b, outcome)

----------------------------------------------------------------------------
(* ThreadPinnerConfig and the process-global ThreadPinner *)

\* num_cpus::get() of the machine, the threads that call init()/get() and
\* the calls they make in all.
NumCpus == 2

NumPinnerThreads == 2

MaxPinnerCalls == 3

PinnerThreads == 1 .. NumPinnerThreads

RECURSIVE PinnerCallsOf(_)
\* The calls made so far by the threads 1 .. n.
PinnerCallsOf(n) ==
    IF n = 0 THEN 0 ELSE pinner_threads[n].calls + PinnerCallsOf(n - 1)

\* usize::saturating_sub
SaturatingSub(a, b) == IF a >= b THEN a - b ELSE 0

\* A variant of the worker count without the floor of one.
AutoThreadsUnclamped(total_cores) == SaturatingSub(total_cores, 1)

\* total_cores.saturating_sub(1).max(1)
AutoThreads(total_cores) == Max(SaturatingSub(total_cores, 1), 1)

\* ThreadPinnerConfig::auto(total_cores)
ConfigAuto(total_cores) ==
    [num_threads |-> AutoThreads(total_cores), reserve_cores |-> 0, enabled |-> TRUE]

\* ThreadPinnerConfig::default()
ConfigDefault == ConfigAuto(NumCpus)

\* ThreadPinnerConfig::new(num_threads, reserve_cores)
ConfigNew(num_threads, reserve_cores) ==
    [num_threads |-> num_threads, reserve_cores |-> reserve_cores, enabled |-> TRUE]

\* The configurations the callers build, each with the cpu count it was
\* derived from when auto() built it.
NotAuto == -1

PinnerConfigArgs ==
    {[config |-> ConfigAuto(n), auto_of |-> n] : n \in {0, 1, NumCpus + 1}}
    \cup {[config |-> ConfigNew(NumCpus + 1, 1), auto_of |-> NotAuto]}

\* ThreadPinner::get_available_cores: (start..total_cores).take(num_threads)
GetAvailableCores(reserve_cores, num_threads) ==
    LET start == Min(reserve_cores, NumCpus)
        count == Min(num_threads, NumCpus - start)
    IN [i \in 1 .. count |-> start + i - 1]

\* The ThreadPinner the closures of init() and get() build.
ThreadPinnerOf(config) ==
    [config |-> config,
     core_ids |-> GetAvailableCores(config.reserve_cores, config.num_threads)]

NoPinner == [config |-> ConfigNew(0, 0), core_ids |-> <<>>]

NoPinnerCall == [kind |-> "none", config |-> ConfigNew(0, 0), auto_of |-> NotAuto]

\* A variant of the cell that lets every closure run.
OnceAlwaysEmpty == THREAD_PINNER.state # "running"

\* OnceLock: a closure may run while the cell is empty and no other runs.
OnceEmpty == THREAD_PINNER.state = "empty"

\* A thread enters ThreadPinner::init(config), pin_threads_to_cores(n, r),
\* which is init(ThreadPinnerConfig::new(n, r)).clone(), or
\* ThreadPinner::get(): it reaches THREAD_PINNER.get_or_init.
PinnerCall(t, kind, arg) ==
    /\ pinner_threads[t].pc = "idle"
    /\ PinnerCallsOf(NumPinnerThreads) < MaxPinnerCalls
    /\ kind = "pin_threads_to_cores" => arg.auto_of = NotAuto
    /\ pinner_threads' = [pinner_threads EXCEPT ![t] =
                             [@ EXCEPT !.pc = "get_or_init",
                                       !.calls = @ + 1,
                                       !.raced = THREAD_PINNER.state = "running",
                                       !.call = IF kind = "get"
                                                THEN [kind |-> kind,
                                                      config |-> ConfigDefault,
                                                      auto_of |-> NumCpus]
                                                ELSE [kind |-> kind,
                                                      config |-> arg.config,
                                                      auto_of |-> arg.auto_of]]]
    /\ UNCHANGED <<THREAD_PINNER, first_init>>
    /\ UNCHANGED not_pinner_vars

\* get_or_init finds the cell empty: the closure of this call starts, the
\* other callers wait for it.
OnceBegin(t) ==
    /\ pinner_threads[t].pc = "get_or_init"
    /\ OnceEmpty
    /\ THREAD_PINNER' = [THREAD_PINNER EXCEPT !.state = "running", !.runner = t,
                                                !.inits = @ + 1]
    /\ pinner_threads' = [pinner_threads EXCEPT ![t].pc = "closure"]
    /\ first_init' = IF first_init.kind = "none" THEN pinner_threads[t].call
                     ELSE first_init
    /\ UNCHANGED not_pinner_vars

\* The closure returns Self { config, core_ids }: the cell holds it and the
\* call returns a reference to it.
OnceEnd(t) ==
    /\ pinner_threads[t].pc = "closure"
    /\ THREAD_PINNER' = [THREAD_PINNER EXCEPT
                            !.state = "full",
                            !.value = ThreadPinnerOf(pinner_threads[t].call.config)]
    /\ pinner_threads' = [pinner_threads EXCEPT ![t] =
                             [@ EXCEPT !.pc = "idle",
                                       !.returned = Append(@, THREAD_PINNER'.value)]]
    /\ UNCHANGED first_init
    /\ UNCHANGED not_pinner_vars

\* get_or_init finds the cell full: the call returns what it holds, the
\* closure of this call, and the configuration it captured, is dropped.
OnceGet(t) ==
    /\ pinner_threads[t].pc = "get_or_init"
    /\ THREAD_PINNER.state = "full"
    /\ pinner_threads' = [pinner_threads EXCEPT ![t] =
                             [@ EXCEPT !.pc = "idle",
                                       !.returned = Append(@, THREAD_PINNER.value)]]
    /\ UNCHANGED <<THREAD_PINNER, first_init>>
    /\ UNCHANGED not_pinner_vars

\* The process starts with the static empty.
PinnerNew ==
    /\ THREAD_PINNER = [state |-> "empty", runner |-> 0, inits |-> 0, value |-> NoPinner]
    /\ pinner_threads = [t \in PinnerThreads |->
                            [pc |-> "idle", calls |-> 0, call |-> NoPinnerCall,
                             raced |-> FALSE, returned |-> <<>>]]
    /\ first_init = NoPinnerCall

PinnerNext ==
    \/ \E t \in PinnerThreads, kind \in {"init", "pin_threads_to_cores", "get"},
          arg \in PinnerConfigArgs : PinnerCall(t, kind, arg)
    \/ \E t \in PinnerThreads : OnceBegin(t)
    \/ \E t \in PinnerThreads : OnceEnd(t)
    \/ \E t \in PinnerThreads : OnceGet(t)

----------------------------------------------------------------------------
(* Model::extract_metadata, Model::load_with_mmap and Generator::new *)

\* The values of a metadata key: no such key, a u32, or a value to_u32()
\* refuses (a string).
Absent == [type |-> "absent", v |-> 0]

U32(n) == [type |-> "u32", v |-> n]

NotU32 == [type |-> "string", v |-> 0]

\* The key prefixes of the modelled files and the suffixes extract_metadata
\* asks for.
Prefixes == {"llama", "qwen", "phi"}

RequiredSuffixes == <<"block_count", "embedding_length", "vocab_size">>

Suffixes == {"block_count", "embedding_length", "vocab_size", "context_length"}

DefaultArchitecture == "llama"

DefaultContextLength == 4096

\* What the modelled files hold for one suffix, by prefix: under the
\* architecture, under another prefix, under two others, nowhere, and with
\* values that are zero or not u32.
SuffixProfiles ==
    {[llama |-> U32(2), qwen |-> Absent, phi |-> Absent],
     [llama |-> U32(0), qwen |-> Absent, phi |-> Absent],
     [llama |-> Absent, qwen |-> U32(3), phi |-> Absent],
     [llama |-> Absent, qwen |-> U32(3), phi |-> U32(5)],
     [llama |-> Absent, qwen |-> NotU32, phi |-> U32(5)],
     [llama |-> NotU32, qwen |-> U32(3), phi |-> Absent],
     [llama |-> Absent, qwen |-> Absent, phi |-> Absent]}

\* general.architecture of the modelled files: absent, or a string.
Architectures == {Absent, [type |-> "string", v |-> "llama"], [type |-> "string", v |-> "qwen"]}

\* md.get("general.architecture"), "llama" when absent
ArchOf(file) ==
    IF file.architecture = Absent THEN DefaultArchitecture ELSE file.architecture.v

\* md.get(&format!("{}.{}", prefix, key_suffix))
MdGet(file, prefix, key_suffix) == file.md[key_suffix][prefix]

\* find_key: the key under the architecture decides when it exists,
\* whatever its type; otherwise the first key ending in the suffix that
\* holds a u32, in the iteration order of the HashMap, which is any order.
\* The results are the values find_key may return, None among them.
None == [some |-> FALSE, v |-> 0]

Some(n) == [some |-> TRUE, v |-> n]

FindKey(file, key_suffix) ==
    LET own == MdGet(file, ArchOf(file), key_suffix)
        others == {MdGet(file, prefix, key_suffix).v :
                      prefix \in {q \in Prefixes :
                                     MdGet(file, q, key_suffix).type = "u32"}}
    IN IF own # Absent
       THEN {IF own.type = "u32" THEN Some(own.v) ELSE None}
       ELSE IF others = {} THEN {None}
       ELSE {Some(n) : n \in others}

\* get_optional: find_key(key_suffix).unwrap_or(default)
GetOptional(found, default) == IF found.some THEN found.v ELSE default

NoMetadata == [architecture |-> "", n_layer |-> 0, n_embd |-> 0, vocab_size |-> 0,
               context_length |-> 0]

\* extract_metadata, as load_with_mmap calls it first: the required keys
\* through get_required and `?`, context_length through get_optional.
ExtractMetadata(n_layer, n_embd, vocab_size, context_length) ==
    /\ load_pc = "file"
    /\ n_layer \in FindKey(gguf, "block_count")
    /\ n_embd \in FindKey(gguf, "embedding_length")
    /\ vocab_size \in FindKey(gguf, "vocab_size")
    /\ context_length \in FindKey(gguf, "context_length")
    /\ IF n_layer.some /\ n_embd.some /\ vocab_size.some
       THEN /\ load_pc' = "extracted"
            /\ metadata' = [architecture |-> ArchOf(gguf),
                            n_layer |-> n_layer.v,
                            n_embd |-> n_embd.v,
                            vocab_size |-> vocab_size.v,
                            context_length |-> GetOptional(context_length,
                                                           DefaultContextLength)]
       ELSE /\ load_pc' = "failed"
            /\ UNCHANGED metadata
    /\ UNCHANGED gguf
    /\ UNCHANGED not_loader_vars

\* load_with_mmap after extract_metadata: the weights are read by
\* Lfm2Model::from_gguf or LlamaModel::from_gguf, which are not part of the
\* source: they succeed or fail.
LoadWeights(weights_ok) ==
    /\ load_pc = "extracted"
    /\ load_pc' = IF weights_ok THEN "loaded" ELSE "failed"
    /\ UNCHANGED <<gguf, metadata>>
    /\ UNCHANGED not_loader_vars

\* Generator::new after Model::load_with_mmap: the tokenizer is loaded, and
\* PagedKvCache::new(n_embd / n_layer, n_embd / n_layer, context_length)
\* divides by n_layer.
GeneratorNew(tokenizer_ok) ==
    /\ load_pc = "loaded"
    /\ load_pc' = IF ~tokenizer_ok THEN "failed"
                  ELSE IF metadata.n_layer = 0 THEN "panicked"
                  ELSE "constructed"
    /\ UNCHANGED <<gguf, metadata>>
    /\ UNCHANGED not_loader_vars

\* A GGUF file on disk, not yet loaded.
LoaderNew(file) ==
    /\ gguf = file
    /\ load_pc = "file"
    /\ metadata = NoMetadata

\* The file of the model the other components run on.
PlainFile ==
    [architecture |-> Absent,
     md |-> [key_suffix \in Suffixes |-> [llama |-> U32(2), qwen |-> Absent, phi |-> Absent]]]

GgufFiles ==
    {[architecture |-> arch, md |-> md] :
        arch \in Architectures, md \in [Suffixes -> SuffixProfiles]}

LoaderNext ==
    \/ \E n_layer, n_embd, vocab_size, context_length \in {None} \cup {Some(n) : n \in 0 .. 5} :
          ExtractMetadata(n_layer, n_embd, vocab_size, context_length)
    \/ \E weights_ok \in BOOLEAN : LoadWeights(weights_ok)
    \/ \E tokenizer_ok \in BOOLEAN : GeneratorNew(tokenizer_ok)

----------------------------------------------------------------------------
(* Specifications *)

CacheInit ==
    /\ \E L \in SeqLenChoices : CacheNew(L)
    /\ GenNew(TRUE)
    /\ BatcherNew(FALSE)
    /\ SharedNew
    /\ PinnerNew
    /\ TokenizerNew
    /\ LoaderNew(PlainFile)

CacheSpec == CacheInit /\ [][CacheNext]_vars

GenInit ==
    /\ CacheNew(ContextLength)
    /\ \E template \in BOOLEAN : GenNew(template)
    /\ BatcherNew(FALSE)
    /\ SharedNew
    /\ PinnerNew
    /\ TokenizerNew
    /\ LoaderNew(PlainFile)

GenSpec == GenInit /\ [][GenNext]_vars

\* The generator with all of its operations, built over a model file that
\* has a chat template, with a system prompt.
GeneratorInit ==
    /\ CacheNew(ContextLength)
    /\ GenNewFull(TRUE, AnyModel, "ArgMax", SystemPrompt)
    /\ BatcherNew(FALSE)
    /\ SharedNew
    /\ PinnerNew
    /\ TokenizerNew
    /\ LoaderNew(PlainFile)

GeneratorSpec == GeneratorInit /\ [][GeneratorNext]_vars

\* A generator over fixed weights, with either sampling.
ModelInit ==
    /\ CacheNew(ContextLength)
    /\ \E weights \in Models, sampling \in Samplings : GenNewWith(TRUE, weights, sampling)
    /\ BatcherNew(FALSE)
    /\ SharedNew
    /\ PinnerNew
    /\ TokenizerNew
    /\ LoaderNew(PlainFile)

ModelSpec == ModelInit /\ [][GenNext]_vars

BatcherInit ==
    /\ CacheNew(ContextLength)
    /\ GenNew(TRUE)
    /\ \E generator \in BOOLEAN : BatcherNew(generator)
    /\ SharedNew
    /\ PinnerNew
    /\ TokenizerNew
    /\ LoaderNew(PlainFile)

BatcherSpec == BatcherInit /\ [][BatcherNext]_vars

\* Batchers of every max_batch_size up to that of the modelled configuration
ConfigInit ==
    /\ CacheNew(ContextLength)
    /\ GenNew(TRUE)
    /\ \E generator \in BOOLEAN : \E size \in 0 .. MaxBatchSize :
          BatcherNewWith(generator, size)
    /\ SharedNew
    /\ PinnerNew
    /\ TokenizerNew
    /\ LoaderNew(PlainFile)

ConfigSpec == ConfigInit /\ [][BatcherNext]_vars

SharedInit ==
    /\ CacheNew(ContextLength)
    /\ GenNew(TRUE)
    /\ BatcherNew(TRUE)
    /\ SharedNew
    /\ PinnerNew
    /\ TokenizerNew
    /\ LoaderNew(PlainFile)

SharedSpec == SharedInit /\ [][SharedNext]_vars

PinnerInit ==
    /\ CacheNew(ContextLength)
    /\ GenNew(TRUE)
    /\ BatcherNew(FALSE)
    /\ SharedNew
    /\ PinnerNew
    /\ TokenizerNew
    /\ LoaderNew(PlainFile)

PinnerSpec == PinnerInit /\ [][PinnerNext]_vars

LoaderInit ==
    /\ CacheNew(ContextLength)
    /\ GenNew(TRUE)
    /\ BatcherNew(FALSE)
    /\ SharedNew
    /\ PinnerNew
    /\ TokenizerNew
    /\ \E file \in GgufFiles : LoaderNew(file)

LoaderSpec == LoaderInit /\ [][LoaderNext]_vars

TokenizerInit ==
    /\ CacheNew(ContextLength)
    /\ GenNew(TRUE)
    /\ BatcherNew(FALSE)
    /\ SharedNew
    /\ PinnerNew
    /\ TokenizerNew
    /\ LoaderNew(PlainFile)

TokenizerSpec == TokenizerInit /\ [][TokenizerNext]_vars

\* The runtime schedules the batcher_loop task and the blocking task, and
\* time passes.
BatcherFairSpec ==
    /\ BatcherInit
    /\ [][BatcherNext]_vars
    /\ WF_vars(LoopStep)
    /\ WF_vars(\E outcome \in {"ok", "err", "join_err"} : BatchDone(outcome))
    /\ WF_vars(Tick)

----------------------------------------------------------------------------
(* Properties of the generator *)

\* The last Generate call has returned Ok.
GenerateSucceeded == gen_pc = "idle" /\ gen_result = "ok"

\* The last Generate call has returned Err.
GenerateFailed == gen_pc = "idle" /\ gen_result = "err"

\* C3: after every successful Generate call, ContextUsed() is at most
\* ContextLimit().
C3_ContextUsedWithinLimit == GenerateSucceeded => ContextUsed <= ContextLimit

\* The stream is PrefillStatus(n), then Token events, then Done.
WellFormedStream(evs, n) ==
    /\ Len(evs) >= 2
    /\ evs[1] = PrefillStatus(n)
    /\ evs[Len(evs)] = Done
    /\ \A i \in 2 .. (Len(evs) - 1) : evs[i].type = "Token"

\* C4: a successful Generate call delivers exactly PrefillStatus(len(prompt
\* tokens)), then zero or more Tokens, then Done; and at every moment of a
\* call PrefillStatus is the first event only and nothing follows a Done.
C4_StreamOrdered ==
    /\ GenerateSucceeded => WellFormedStream(events, Len(gen_call.prompt_tokens))
    /\ \A i \in 1 .. Len(events) :
          /\ (events[i].type = "PrefillStatus") <=> (i = 1)
          /\ (events[i].type = "Done") => (i = Len(events))

\* A successful call that streamed a tail after a first fragment.
C4_Witness ==
    /\ GenerateSucceeded
    /\ Len(gen_call.prompt_tokens) > 0
    /\ Len(events) >= 4

\* C5: a Generate call that returns an error leaves messages and
\* token_history as they were when the call started.
C5_ErrorLeavesStateUnmodified ==
    GenerateFailed =>
        /\ messages = gen_call.messages0
        /\ token_history = gen_call.history0

RECURSIVE EmittedText(_)
\* The texts of the Token events, concatenated in emission order.
EmittedText(evs) ==
    IF evs = <<>> THEN <<>>
    ELSE (IF Head(evs).type = "Token" THEN Head(evs).text ELSE <<>>)
         \o EmittedText(Tail(evs))

\* C6: the Token fragments of a call, concatenated, are the decode of the
\* response tokens.
C6_FragmentsSpellResponse ==
    GenerateSucceeded => EmittedText(events) = Decode(ResponseTokens(gen_call))

\* The call is past the truncation of generate and has not returned.
GenerateRunning == gen_pc \in {"prefill", "loop"}

\* What the truncation has to remove from the history the call found.
ExcessOf(call) ==
    Len(call.history0) + Len(call.prompt_tokens) + call.max_tokens - ContextLength

DrainedOf(call) ==
    IF ExcessOf(call) <= 0 THEN 0
    ELSE IF ExcessOf(call) < Len(call.history0) THEN ExcessOf(call)
    ELSE Len(call.history0)

\* C13: with total = len(token_history) + len(prompt_tokens) + max_tokens,
\* generate leaves token_history alone when total <= context_length, removes
\* exactly its oldest excess = total - context_length tokens, the others
\* keeping their order, when excess < len(token_history), and clears it
\* otherwise; the run then goes on from what is left, followed by the prompt.
C13_OldestTokensDrained ==
    GenerateRunning =>
        /\ Len(token_history) = Len(gen_call.history0) - DrainedOf(gen_call)
        /\ \A i \in 1 .. Len(token_history) :
              token_history[i] = gen_call.history0[i + DrainedOf(gen_call)]
        /\ SubSeq(gen_call.all_tokens, 1, Len(token_history) + Len(gen_call.prompt_tokens))
              = token_history \o gen_call.prompt_tokens

\* A call that found a history of different tokens and had to drain a part
\* of it, not all.
C13_Witness ==
    /\ GenerateRunning
    /\ ExcessOf(gen_call) > 0
    /\ ExcessOf(gen_call) < Len(gen_call.history0)
    /\ gen_call.history0[1] # gen_call.history0[Len(gen_call.history0)]
    /\ Len(token_history) = Len(gen_call.history0) - ExcessOf(gen_call)

\* The roles of the messages go user, assistant, user, assistant, ...
RolesAlternate(msgs) ==
    \A i \in 1 .. Len(msgs) :
        msgs[i].role = (IF i % 2 = 1 THEN "user" ELSE "assistant")

\* C14: after a successful call, messages is what it was at the start plus
\* two entries, the user's prompt and then the assistant's response, the
\* last entry holding the returned response; when the messages before the
\* call were those of successful calls, whole user and assistant pairs (none
\* on a new generator), the roles alternate after it.
C14_MessagesGrowByTwo ==
    GenerateSucceeded =>
        /\ messages = gen_call.messages0
                        \o <<[role |-> "user", content |-> gen_call.prompt],
                             [role |-> "assistant", content |-> gen_call.response]>>
        /\ (RolesAlternate(gen_call.messages0) /\ Len(gen_call.messages0) % 2 = 0)
              => RolesAlternate(messages)

\* The second of two successful calls in a row.
C14_Witness ==
    /\ GenerateSucceeded
    /\ Len(messages) = 4
    /\ RolesAlternate(messages)
    /\ messages[4].content # <<>>

\* The callback has received Done in the running (or last) call.
DoneEmitted == \E i \in 1 .. Len(events) : events[i].type = "Done"

\* C15: an error of a call surfaces as its return value only: a call that
\* returned Err has not emitted Done, that is, once Done is emitted the call
\* returns Ok.
C15_NoDoneBeforeError == GenerateFailed => ~DoneEmitted

\* The number of Token events among the events.
TokenEvents(evs) == Cardinality({i \in 1 .. Len(evs) : evs[i].type = "Token"})

\* The k-th generated token is EOS, before max_tokens is reached.
EosAt(call, k) ==
    /\ k \in 1 .. Len(ResponseTokens(call))
    /\ ResponseTokens(call)[k] = EosToken
    /\ k < call.max_tokens

\* Generation stopped at the k-th token: nothing was sampled after it and it
\* ends the committed sequence.
StoppedAt(call, k) ==
    /\ Len(ResponseTokens(call)) = k
    /\ token_history # <<>>
    /\ token_history[Len(token_history)] = EosToken

\* C16: when the k-th generated token is EOS with k < max_tokens, generation
\* stops there: no further token is sampled, the call emits at most k Token
\* events and then Done, and EOS is the last token committed.
C16_StopsAtEos ==
    GenerateSucceeded =>
        \A k \in 1 .. Len(ResponseTokens(gen_call)) :
            EosAt(gen_call, k) =>
                /\ StoppedAt(gen_call, k)
                /\ TokenEvents(events) <= k
                /\ events[Len(events)].type = "Done"

\* C22: generate_batch stores no history: during the call and after it,
\* whether it returned Ok or Err, messages and token_history are what they
\* were when it started; on success there is one response per prompt, in
\* prompt order, each generated from the system message and that prompt
\* alone, its run starting from the tokens of that prompt without the token
\* history.
C22_BatchStoresNoHistory ==
    /\ gen_batch.status # "none" =>
          /\ messages = gen_batch.messages0
          /\ token_history = gen_batch.history0
          /\ ContextUsed = Len(gen_batch.history0)
    /\ gen_batch.status = "ok" =>
          /\ Len(gen_batch.results) = Len(gen_batch.prompts)
          /\ \A i \in 1 .. Len(gen_batch.prompts) :
                /\ gen_batch.results[i].prompt = gen_batch.prompts[i]
                /\ gen_batch.results[i].rendered
                      = SystemMessages(system_prompt)
                          \o <<UserMessage(gen_batch.prompts[i])>>
                /\ gen_batch.results[i].context = EncodeBatchPrompt(gen_batch.prompts[i])

\* A batch of two different prompts answered on a generator that holds a
\* conversation.
C22_Witness ==
    /\ gen_batch.status = "ok"
    /\ Len(gen_batch.prompts) = 2
    /\ gen_batch.prompts[1] # gen_batch.prompts[2]
    /\ gen_batch.results[1].response # <<>>
    /\ messages # <<>>
    /\ token_history # <<>>

\* C26: every model.forward the generator issues, in the prefill and the
\* decode steps of generate and generate_batch and in the strides of warmup,
\* has at least one token and ends within the context:
\* position + len(tokens) <= context_length.
C26_ForwardWithinContext ==
    last_forward.issued =>
        /\ last_forward.len >= 1
        /\ last_forward.position + last_forward.len <= ContextLength

\* A step taken between calls that starts none: with the generator idle
\* before and after and no call counted, it is a clear_history.
ClearHistoryStep == gen_pc = "idle" /\ gen_pc' = "idle" /\ calls' = calls

\* What clear_history has to keep: the model, the tokenizer, the sampler,
\* the template, the system prompt and the key/value cache.
GeneratorLoaded ==
    <<model, pending_tokens, logits_processor, has_template, system_prompt, cache_vars>>

\* C21: from any state the generator reaches between calls, clear_history
\* leaves messages and token_history empty, ContextUsed() = 0, and leaves
\* the model, the tokenizer, the sampler, the system prompt, the kv cache
\* and ContextLimit() as they were.
C21_ClearHistoryFrame ==
    [][ClearHistoryStep =>
          /\ messages' = <<>>
          /\ token_history' = <<>>
          /\ ContextUsed' = 0
          /\ GeneratorLoaded' = GeneratorLoaded
          /\ ContextLimit' = ContextLimit]_vars

\* The history is cleared after a call under a system prompt that left
\* messages and tokens behind.
C21_Witness ==
    /\ gen_pc = "idle"
    /\ gen_result = "none"
    /\ calls > 0
    /\ messages = <<>>
    /\ token_history = <<>>
    /\ gen_call.response # <<>>
    /\ system_prompt # NoSystemPrompt

\* A run of generate_internal_with_tokens is past its prefill: in the decode
\* loop, or out of it and about to end.
RunSampled == gen_pc = "loop"

\* C32: a run of generate or of generate_batch appends at most max_tokens
\* sampled tokens after the prompt, for every max_tokens from 0 on, and
\* exactly max_tokens when it ends without having sampled EOS.
C32_AtMostMaxTokens ==
    RunSampled =>
        /\ Generated(gen_call) <= gen_call.max_tokens
        /\ (~LoopContinues /\ gen_call.next_token # EosToken) =>
              Generated(gen_call) = gen_call.max_tokens

\* C33: the prefill is forwarded at position 0, and the decode step that
\* feeds the k-th sampled token is forwarded at the number of tokens the
\* call has fed before it, the prompt and the k - 1 tokens of the earlier
\* steps, whatever token_history held at the start of the call.
C33_PositionsContiguous ==
    (gen_pc = "loop" /\ gen_call.store_history) =>
        IF gen_call.iterations = 0
        THEN last_forward = ForwardCall(Len(gen_call.prompt_tokens), 0)
        ELSE last_forward
                = ForwardCall(1, Len(gen_call.prompt_tokens) + gen_call.iterations - 1)

\* The history a generate call keeps: the most recent tokens that leave
\* room for the prompt and max_tokens, none when the whole history does not
\* make that room.
KeptHistory(call) ==
    LET over == Len(call.history0) + Len(call.prompt_tokens) + call.max_tokens
                   - ContextLength
    IN IF over <= 0 THEN call.history0
       ELSE IF over < Len(call.history0)
       THEN SubSeq(call.history0, over + 1, Len(call.history0))
       ELSE <<>>

\* C34: after a successful generate call token_history is the history kept
\* after truncation, then the prompt tokens, then the tokens generated in
\* the call, one per sample; the response is the decode of exactly those
\* generated tokens.
C34_HistoryAndResponse ==
    GenerateSucceeded =>
        LET generated == ResponseTokens(gen_call)
        IN /\ Len(generated) = gen_call.iterations + 1
           /\ token_history = KeptHistory(gen_call) \o gen_call.prompt_tokens \o generated
           /\ gen_call.response = Decode(generated)
           /\ generated[Len(generated)] = gen_call.next_token

\* A successful call that dropped a part of a history of different tokens
\* and kept the rest.
C34_Witness ==
    /\ GenerateSucceeded
    /\ KeptHistory(gen_call) # <<>>
    /\ KeptHistory(gen_call) # gen_call.history0
    /\ gen_call.history0[1] # gen_call.history0[Len(gen_call.history0)]
    /\ gen_call.prompt_tokens # <<>>
    /\ gen_call.next_token # gen_call.prompt_tokens[1]

\* C39: when a generate call or a run of generate_batch starts its prefill
\* the pending_tokens of the tokenizer are empty, whatever calls came
\* before, those that failed in the decode loop included.
C39_PendingEmptyAtStart == gen_pc = "prefill" => pending_tokens = <<>>

----------------------------------------------------------------------------
(* Properties of the paged cache *)

\* C7: after appends only, on a fresh or reset cache, summing to S positions,
\* current_seq_len = S and ceil(S / page_size) pages are allocated.
C7_AppendAllocatesPages ==
    only_appends =>
        /\ current_seq_len = appended
        /\ Cardinality(AllocatedPages) = CeilDiv(appended, PageSize)

\* C8: current_seq_len never exceeds max_pages * page_size, whatever was
\* appended.
C8_SeqLenWithinCapacity == current_seq_len <= max_pages * PageSize

\* A full cache that has just refused an append.
C8_Witness ==
    /\ cache_call = [op |-> "append", result |-> "panic"]
    /\ max_pages > 0
    /\ current_seq_len = max_pages * PageSize

\* C9: no usage counter exceeds page_size.
C9_UsageWithinPage == \A i \in DOMAIN page_usage : page_usage[i] <= PageSize

\* A page written up to its end.
C9_Witness ==
    /\ cache_call.op = "write_to_page"
    /\ cache_call.result = "ok"
    /\ \E i \in DOMAIN page_usage : page_usage[i] = PageSize

\* The fields of the cache that reset may touch, and those it may not.
CacheContents == <<pages, page_usage, current_seq_len>>

CacheShape == <<max_pages, DOMAIN pages, max_seq_len>>

\* C18: reset leaves every page absent, no usage counter and
\* current_seq_len = 0, from any state; it leaves max_pages, the page slots
\* and max_seq_len() as they were (page_size is the constant 16); and a
\* reset of a cache just reset, or never written, changes nothing.
C18_ResetEmpties ==
    /\ [](cache_call.op = "reset" =>
             /\ AllocatedPages = {}
             /\ DOMAIN page_usage = {}
             /\ current_seq_len = 0)
    /\ [][cache_call'.op = "reset" =>
             /\ CacheShape' = CacheShape
             /\ (cache_call.op \in {"new", "reset"} => CacheContents' = CacheContents)]_vars

\* A reset that dropped pages.
C18_Witness ==
    /\ cache_call.op = "reset"
    /\ cache_call.dropped > 0
    /\ AllocatedPages = {}
    /\ current_seq_len = 0

\* C19: a cache built by new(num_heads, head_dim, L) has page_size = 16,
\* ceil(L / 16) pages, current_seq_len = 0, no allocated page, and
\* max_seq_len() = L, for every L.
C19_NewCache ==
    cache_call.op = "new" =>
        /\ PageSize = 16
        /\ max_pages = CeilDiv(new_max_seq_len, 16)
        /\ current_seq_len = 0
        /\ AllocatedPages = {}
        /\ max_seq_len = new_max_seq_len

\* The step is a call of allocate_page or write_to_page.
PageCallStep == cache_call'.op \in {"allocate_page", "write_to_page"}

\* C36: pages are allocated lazily, by a call on their index only: a page
\* becomes present in a step only when the step is an allocate_page or
\* write_to_page call that passed the range checks with that index, it is
\* present after every such call that returned Ok, and only reset takes a
\* page away; a call on a page already present leaves the page present and,
\* for allocate_page, its usage counter as it was; a call with a page index
\* >= max_pages or a write offset >= page_size returns Ok and changes
\* nothing of the cache.
C36_LazyAllocation ==
    [][/\ \A i \in DOMAIN pages :
             /\ (pages'[i] /\ ~pages[i]) =>
                   (PageCallStep /\ cache_call'.in_range /\ cache_call'.page_idx = i)
             /\ (pages[i] /\ ~pages'[i]) => cache_call'.op = "reset"
       /\ (PageCallStep /\ cache_call'.in_range /\ cache_call'.result = "ok") =>
             pages'[cache_call'.page_idx]
       /\ (cache_call'.op = "allocate_page" /\ cache_call'.in_range
              /\ pages[cache_call'.page_idx]) =>
             (pages' = pages /\ page_usage' = page_usage)
       /\ (PageCallStep /\ ~cache_call'.in_range) =>
             /\ cache_call'.result = "ok"
             /\ <<max_pages, pages, page_usage, current_seq_len>>'
                   = <<max_pages, pages, page_usage, current_seq_len>>]_vars

\* The second page of a cache was written and allocated, the first was not.
C36_Witness ==
    /\ cache_call.op = "write_to_page"
    /\ cache_call.in_range
    /\ cache_call.page_idx = 1
    /\ pages[1]
    /\ ~pages[0]
    /\ Used(1) > 0

RECURSIVE SumUsage(_)
\* The sum of the usage counters of the pages of a set.
SumUsage(idxs) ==
    IF idxs = {} THEN 0
    ELSE LET i == CHOOSE x \in idxs : TRUE
         IN page_usage[i] + SumUsage(idxs \ {i})

\* C40: the occupancy figures agree in every state: the usage counters sum
\* to current_seq_len, and a page with a non-zero counter is allocated.
C40_OccupancyAgrees ==
    /\ SumUsage(DOMAIN page_usage) = current_seq_len
    /\ \A i \in DOMAIN page_usage : page_usage[i] > 0 => (i \in DOMAIN pages /\ pages[i])

----------------------------------------------------------------------------
(* Properties of the dynamic batcher *)

\* C1: every request that generate() has put on the channel is sent exactly
\* one BatchResult by the loop: never two, and eventually one, whether the
\* batch succeeds, generate_batch fails, the blocking task fails or there is
\* no generator.
C1_ExactlyOneResult ==
    /\ [](\A id \in RequestIds : Len(posted[id]) <= 1)
    /\ \A id \in RequestIds : InBatcher(id) ~> (Len(posted[id]) = 1)

\* Two requests answered, one by the error of a failed blocking task and one
\* by an output.
C1_Witness ==
    \E a, b \in RequestIds :
        /\ Len(posted[a]) = 1
        /\ posted[a][1].error = "Task join error"
        /\ Len(posted[b]) = 1
        /\ posted[b][1].kind = "ok"

\* The requests that entered the channel so far.
BurstRequests ==
    {c \in Callers :
        /\ callers[c].pc \in {"waiting", "abandoned", "returned"}
        /\ callers[c].result.error # "Batcher channel closed"}

\* C2: a burst of N <= max_queue_size requests, all arrived within
\* batch_window_ms of the first, is dispatched as at most
\* ceil(N / max_batch_size) batches.
C2_BurstCoalesced ==
    (burst.in_window /\ Cardinality(BurstRequests) <= MaxQueueSize) =>
        Len(batches) <= CeilDiv(Cardinality(BurstRequests), MaxBatchSize)

\* The result sent to a request is its own: its id, and on success the
\* output at its place in the batch, generated for its prompt.
OwnResult(res, req, i) ==
    /\ res.id = req.id
    /\ res.kind = "ok" => (res.output.prompt = req.prompt /\ res.output.index = i)

\* C10: within a dispatched batch the i-th request is sent the i-th output of
\* generate_batch, the one for its own prompt, under its own id, and what a
\* caller receives is the response for its own prompt.
C10_OwnResponse ==
    /\ \A b \in 1 .. Len(batches) : \A i \in 1 .. Len(batches[b]) :
          \A k \in 1 .. Len(posted[batches[b][i].id]) :
              OwnResult(posted[batches[b][i].id][k], batches[b][i], i)
    /\ \A c \in Callers :
          callers[c].pc = "returned" =>
              /\ callers[c].result.id = callers[c].req.id
              /\ callers[c].result.kind = "ok" =>
                    callers[c].result.output.prompt = callers[c].req.prompt

\* A batch of two requests with different prompts, both answered with an
\* output and both callers returned.
C10_Witness ==
    /\ \E b \in 1 .. Len(batches) :
          /\ Len(batches[b]) = 2
          /\ batches[b][1].prompt # batches[b][2].prompt
          /\ \A i \in 1 .. 2 :
                /\ posted[batches[b][i].id] # <<>>
                /\ posted[batches[b][i].id][1].kind = "ok"
    /\ \A c \in Callers : callers[c].pc = "returned" /\ callers[c].result.kind = "ok"

\* C11: a batcher built without a generator fails every request: whatever a
\* call to generate() returns, and whatever is sent to a request, is the
\* error "Generator not connected to batcher", never an output.
C11_NoGeneratorFailsAll ==
    ~has_generator =>
        /\ \A c \in Callers :
              callers[c].pc = "returned" =>
                  /\ callers[c].result.kind = "err"
                  /\ callers[c].result.error = "Generator not connected to batcher"
        /\ \A id \in RequestIds : \A k \in 1 .. Len(posted[id]) :
              posted[id][k].kind = "err"

\* Without a generator, all the callers have called at once, were dispatched
\* as one batch and have returned with the error.
C11_Witness ==
    /\ ~has_generator
    /\ \E b \in 1 .. Len(batches) : Len(batches[b]) = NumCallers
    /\ \A c \in Callers :
          /\ callers[c].pc = "returned"
          /\ callers[c].result.error = "Generator not connected to batcher"

\* C20: the max_tokens, repeat_penalty and repeat_last_n a batch is
\* generated with are those of its first request in arrival order, whatever
\* the other requests of the batch carry.
C20_FirstRequestParams ==
    \A b \in 1 .. Len(batches) : \A i \in 1 .. Len(batches[b]) :
        \A k \in 1 .. Len(posted[batches[b][i].id]) :
            posted[batches[b][i].id][k].kind = "ok" =>
                /\ posted[batches[b][i].id][k].output.params.max_tokens
                      = batches[b][1].max_tokens
                /\ posted[batches[b][i].id][k].output.params.repeat_penalty
                      = batches[b][1].repeat_penalty
                /\ posted[batches[b][i].id][k].output.params.repeat_last_n
                      = batches[b][1].repeat_last_n

\* A batch of two requests that differ in each parameter, the second
\* answered with an output.
C20_Witness ==
    \E b \in 1 .. Len(batches) :
        /\ Len(batches[b]) = 2
        /\ batches[b][1].max_tokens # batches[b][2].max_tokens
        /\ batches[b][1].repeat_penalty # batches[b][2].repeat_penalty
        /\ batches[b][1].repeat_last_n # batches[b][2].repeat_last_n
        /\ posted[batches[b][2].id] # <<>>
        /\ posted[batches[b][2].id][1].kind = "ok"

\* C28: while pending_requests is non-empty the loop dispatches a batch only
\* when the window has elapsed, pending holds max_batch_size requests or the
\* channel is closed: a 1 ms poll that times out dispatches nothing.
C28_DispatchOnlyWhenDue ==
    [][Len(batches') > Len(batches) =>
          \/ elapsed >= BatchWindowMs
          \/ Len(pending_requests) >= max_batch_size
          \/ (closed /\ request_rx = <<>>)]_vars

\* C29: every dispatched batch holds at least one and at most
\* max_batch_size requests, and pending_requests never holds more than
\* max_batch_size, for every max_batch_size, 0 and 1 included.
C29_BatchWithinSize ==
    /\ \A b \in 1 .. Len(batches) :
          Len(batches[b]) >= 1 /\ Len(batches[b]) <= max_batch_size
    /\ Len(pending_requests) <= max_batch_size

\* The dispatched batches laid end to end.
RECURSIVE Flatten(_)
Flatten(seqs) == IF seqs = <<>> THEN <<>> ELSE Head(seqs) \o Flatten(Tail(seqs))

\* C30: requests are batched in the order they arrived in the queue: the
\* dispatched batches, then the request held back by a flush, then pending,
\* then the queue, are the arrivals in their order, none dropped, none
\* moved.
C30_ArrivalOrder ==
    Flatten(batches) \o in_flight.then_push \o pending_requests \o request_rx = arrived

\* Two requests that arrived against the order of their ids are dispatched
\* in one batch.
C30_Witness ==
    /\ Len(arrived) = 2
    /\ arrived[1].id > arrived[2].id
    /\ \E b \in 1 .. Len(batches) : batches[b] = arrived

\* process_batch has returned for the b-th dispatched batch.
BatchFinished(b) == b < Len(batches) \/ loop_pc # "processing"

\* C31: a reply slot abandoned before its result is posted makes that one
\* send fail and nothing else: every member of a processed batch, the
\* abandoned one included, is sent one result, its own, and the loop does
\* not stop over it, it exits on a closed channel only.
C31_AbandonedSlotIgnored ==
    /\ \A b \in 1 .. Len(batches) :
          BatchFinished(b) =>
              \A i \in 1 .. Len(batches[b]) :
                  /\ Len(posted[batches[b][i].id]) = 1
                  /\ posted[batches[b][i].id][1].id = batches[b][i].id
    /\ loop_pc = "exited" => closed

\* A batch of two whose first caller dropped its receiver before the send,
\* and whose second caller has received its output.
C31_Witness ==
    \E b \in 1 .. Len(batches) : \E c, e \in Callers :
        /\ Len(batches[b]) = 2
        /\ callers[c].req = batches[b][1]
        /\ callers[c].pc = "abandoned"
        /\ callers[c].result.kind = "dropped"
        /\ callers[e].req = batches[b][2]
        /\ callers[e].pc = "returned"
        /\ callers[e].result.kind = "ok"
        /\ callers[e].result.output.prompt = callers[e].req.prompt
        /\ loop_pc # "exited"

\* Every request of the b-th dispatched batch has been sent its result.
BatchPosted(b) == \A i \in 1 .. Len(batches[b]) : posted[batches[b][i].id] # <<>>

\* C37: a batcher has at most one batch in flight: every batch but the last
\* dispatched has all its replies posted, and while the loop awaits the
\* completion of a batch it takes no request off the queue and starts no
\* batch, the requests that arrive staying in the queue; it goes on only
\* once every reply of the batch is posted.
C37_OneBatchInFlight ==
    [][/\ \A b \in 1 .. (Len(batches') - 1) : BatchPosted(b)'
       /\ loop_pc = "processing" =>
             /\ batches' = batches
             /\ SubSeq(request_rx', 1, Len(request_rx)) = request_rx
             /\ loop_pc' # "processing" => BatchPosted(Len(batches))']_vars

\* A request has arrived while a batch is in flight and waits in the queue.
C37_Witness ==
    /\ loop_pc = "processing"
    /\ in_flight.requests # <<>>
    /\ ~BatchPosted(Len(batches))
    /\ request_rx # <<>>

\* C38: once every handle is dropped the loop dispatches what is pending
\* and terminates: it has exited only with the channel closed and empty,
\* nothing pending and every request that arrived dispatched, and a closed
\* channel leads to its exit.
C38_DrainsAndExits ==
    /\ [](loop_pc = "exited" =>
             /\ closed
             /\ request_rx = <<>>
             /\ pending_requests = <<>>
             /\ Flatten(batches) = arrived)
    /\ closed ~> (loop_pc = "exited")

\* The loop has exited through the Ok(None) arm of the poll, which
\* dispatched the pending requests as the last batch and left the window
\* clock as it was.
C38_Witness ==
    /\ loop_pc = "exited"
    /\ closed
    /\ elapsed >= 1
    /\ batches # <<>>
    /\ \E c \in Callers :
          /\ callers[c].pc = "abandoned"
          /\ callers[c].req = batches[Len(batches)][1]
          /\ posted[callers[c].req.id] # <<>>

----------------------------------------------------------------------------
(* Properties of the generator over fixed weights *)

\* The call started from the state and with the arguments the recorded call
\* started from: the same messages, token history and sampler state, the
\* same prompt tokens and max_tokens.
SameStart(run, call) ==
    /\ run.messages0 = call.messages0
    /\ run.history0 = call.history0
    /\ run.sampler0 = call.sampler0
    /\ run.prompt_tokens = call.prompt_tokens
    /\ run.max_tokens = call.max_tokens

\* C12: generate is deterministic: a successful call that started from the
\* messages, token history and sampler state an earlier successful call
\* started from, with the same prompt and parameters, gives the same
\* response and the same event stream, under ArgMax and under a seeded
\* sampling.
C12_Deterministic ==
    (GenerateSucceeded /\ runs # <<>> /\ SameStart(runs[1], gen_call)) =>
        /\ gen_call.response = runs[1].response
        /\ events = runs[1].events

----------------------------------------------------------------------------
(* Properties of the shared generator *)

\* The batchers whose blocking task is inside generate_batch.
Running == {b \in Batchers : blocking_tasks[b].pc = "running"}

\* C17: at most one generate_batch runs on a shared generator at any
\* instant, the blocking tasks taking the generator's lock, and the lock is
\* held by a running task only: it is free again when the batch has ended,
\* with success or failure.
C17_OneBatchAtATime ==
    /\ Cardinality(Running) <= 1
    /\ \A b \in Batchers : gen_mutex = b => blocking_tasks[b].pc = "running"
    /\ Running = {} => gen_mutex = Unlocked

\* A batch runs while the task of another batcher waits for the lock, after
\* a batch that failed.
C17_Witness ==
    \E a, b \in Batchers :
        /\ a # b
        /\ blocking_tasks[a].pc = "running"
        /\ gen_mutex = a
        /\ blocking_tasks[b].pc = "spawned"
        /\ blocking_tasks[b].outcome \in {"err", "join_err"}

----------------------------------------------------------------------------
(* Properties of the thread pinner *)

\* The ThreadPinners the calls have returned so far.
ReturnedPinners ==
    UNION {{pinner_threads[t].returned[i] : i \in 1 .. Len(pinner_threads[t].returned)} :
              t \in PinnerThreads}

\* C23: the process-global thread pinner is initialised at most once: in
\* every interleaving of init(config) and get() calls, every call returns
\* the one instance, whose configuration and core list are those of the
\* first initialisation; the configuration of a later init is ignored.
C23_InitialisedOnce ==
    /\ THREAD_PINNER.inits <= 1
    /\ THREAD_PINNER.state = "full" =>
          THREAD_PINNER.value = ThreadPinnerOf(first_init.config)
    /\ \A t \in PinnerThreads : \A i \in 1 .. Len(pinner_threads[t].returned) :
          /\ pinner_threads[t].returned[i] = THREAD_PINNER.value
          /\ pinner_threads[t].returned[i].config = first_init.config
          /\ pinner_threads[t].returned[i].core_ids
                = GetAvailableCores(first_init.config.reserve_cores,
                                    first_init.config.num_threads)

\* Two threads raced: the second entered while the closure of the first
\* ran, with another configuration, and got the instance of the first.
C23_Witness ==
    \E t \in PinnerThreads :
        /\ first_init.kind = "init"
        /\ THREAD_PINNER.runner # t
        /\ pinner_threads[t].call.kind = "init"
        /\ pinner_threads[t].call.config # first_init.config
        /\ pinner_threads[t].call.config.num_threads > 0
        /\ pinner_threads[t].pc = "idle"
        /\ Len(pinner_threads[t].returned) = 1
        /\ pinner_threads[t].returned[1].config = first_init.config
        /\ pinner_threads[t].raced

\* C27: ThreadPinnerConfig::auto(n) and the default configuration, which is
\* auto(num_cpus), give num_threads = max(n - 1, 1), never less than 1, for
\* every n >= 0.
C27_DefaultWorkerCount ==
    \A t \in PinnerThreads :
        pinner_threads[t].call.auto_of # NotAuto =>
            /\ pinner_threads[t].call.config.num_threads
                  = Max(pinner_threads[t].call.auto_of - 1, 1)
            /\ pinner_threads[t].call.config.num_threads >= 1

\* A call with auto(0), and one with the default configuration.
C27_Witness ==
    /\ \E t \in PinnerThreads :
          /\ pinner_threads[t].call.kind = "init"
          /\ pinner_threads[t].call.auto_of = 0
          /\ pinner_threads[t].call.config.num_threads = 1
    /\ \E t \in PinnerThreads :
          /\ pinner_threads[t].call.kind = "get"
          /\ pinner_threads[t].call.config.num_threads = Max(NumCpus - 1, 1)

----------------------------------------------------------------------------
(* Properties of the loader *)

\* C24: every GgufMetadata of a successful load has n_layer, n_embd,
\* vocab_size and context_length above zero: a file that gives 0 for one
\* of these keys yields neither a loaded model nor a constructed generator.
C24_MetadataPositive ==
    load_pc \in {"loaded", "constructed"} =>
        /\ metadata.n_layer > 0
        /\ metadata.n_embd > 0
        /\ metadata.vocab_size > 0
        /\ metadata.context_length > 0

\* The integer values the lookup of the claim may find for a suffix: the
\* key under the architecture first, then any key ending in the suffix;
\* the well-known prefixes come last and are keys ending in the suffix.
LookupInOrder(file, key_suffix) ==
    LET own == MdGet(file, ArchOf(file), key_suffix)
        any == {MdGet(file, prefix, key_suffix).v :
                   prefix \in {q \in Prefixes :
                                  MdGet(file, q, key_suffix).type = "u32"}}
    IN IF own.type = "u32" THEN {own.v} ELSE any

\* A required suffix that the lookup of the claim finds nowhere.
RequiredMissing(file) ==
    \E i \in 1 .. Len(RequiredSuffixes) : LookupInOrder(file, RequiredSuffixes[i]) = {}

\* C25: the lookup of a suffix tries the key under the architecture, then
\* any key ending in the suffix, then the well-known prefixes, and returns
\* the first integer found; loading fails for a missing key exactly when a
\* required suffix is found by none of these steps, and an absent
\* context_length gives 4096.
C25_LookupOrder ==
    load_pc # "file" =>
        /\ (load_pc = "failed" /\ metadata = NoMetadata) <=> RequiredMissing(gguf)
        /\ metadata # NoMetadata =>
              /\ metadata.n_layer \in LookupInOrder(gguf, "block_count")
              /\ metadata.n_embd \in LookupInOrder(gguf, "embedding_length")
              /\ metadata.vocab_size \in LookupInOrder(gguf, "vocab_size")
              /\ metadata.context_length \in
                    (IF LookupInOrder(gguf, "context_length") = {}
                     THEN {DefaultContextLength}
                     ELSE LookupInOrder(gguf, "context_length"))

----------------------------------------------------------------------------
(* Properties of the streaming decode *)

RECURSIVE Concat(_)
\* The fragments end to end.
Concat(texts) == IF texts = <<>> THEN <<>> ELSE Head(texts) \o Concat(Tail(texts))

\* C35: after any sequence of decode_next, decode_rest and clear_cache,
\* pending_tokens holds the tokens whose text has not been emitted yet: the
\* fragments returned since the last clear spell no text twice, they are
\* the decode of the tokens pushed or a part of it, and the text of what is
\* pending is still to come; decode_next returns None exactly when the
\* decode of the buffer with the new token is not longer than without it.
C35_PendingIsUnemittedTail ==
    tokenizer_log.pc = "ready" =>
        /\ ByteLen(Concat(tokenizer_log.fragments)) + ByteLen(Decode(pending_tokens))
              <= ByteLen(Decode(tokenizer_log.pushed))
        /\ tokenizer_log.op = "decode_next" =>
              ((tokenizer_log.result.kind = "none")
                  <=> (ByteLen(Decode(Append(tokenizer_log.before,
                                             tokenizer_log.pushed[Len(tokenizer_log.pushed)])))
                          <= ByteLen(Decode(tokenizer_log.before))))


====
